---- MODULE Spec2Model ----
(***************************************************************************)
(* State-machine model of the smart-building rule engine:                  *)
(*   app/api/alert_manager.py      AlertManager (cooldown gate, rules,     *)
(*                                 trackers, bounded alert store)          *)
(*   app/sensors/base_sensor.py    BaseSensor (liveness state machine)     *)
(*   app/sensors/sensor_implementations.py, sensor_manager.py              *)
(*                                                                         *)
(* Time is the wall clock in whole seconds since the process started.      *)
(* Every datetime.now() / time.time() call is a read of `now`; the clock   *)
(* may advance between two reads of one handler (parameter d of the        *)
(* handlers that read it twice).                                           *)
(* Humidity, temperature and distance are integers; the exposure           *)
(* accumulator counts units of 1/3600 hour.                                *)
(***************************************************************************)
EXTENDS Integers, Sequences, FiniteSets, TLC

VARIABLES
    now,                        \* wall clock, seconds
    \* ---- AlertManager fields (alert_manager.py:11-21)
    alerts,                     \* deque(maxlen=1000) of alert dicts, oldest first
    alert_cooldowns,            \* dict alert_type -> time of last granted check
    alert_configs,              \* dict alert_type -> config dict
    db_manager,                 \* TRUE when a database manager is attached
    zone_entry_times,           \* defaultdict(list): zone -> event times
    daily_usage_stats,          \* defaultdict(int): zone -> usage count
    co2_exposure_tracking,      \* defaultdict(float): zone -> exposure (1/3600 h)
    high_humidity_start_times,  \* dict zone -> start time
    \* ---- BaseSensor fields, one entry per sensor (base_sensor.py:11-21)
    sensor_class,               \* class of each sensor object
    hw_present,                 \* driver library / bus available at set-up
    is_active,
    consecutive_failed_reads,
    connection_failures,
    current_reading,
    last_reading_time,
    updating,                   \* position of the update_reading call in progress
    sample,                     \* the dict read_sensor_data returned last (the content
                                \* of current_reading while it is not {})
    \* ---- the API thread (main.py)
    reader,                     \* the store read in progress on the API thread
    \* ---- bookkeeping of the verification, never read by the program
    allocs,                     \* number of alert dicts created so far
    cleared,                    \* number of alerts removed by clear_old_alerts so far
    ops,                        \* number of operations performed (exploration bound)
    last,                       \* description of the latest operation
    history                     \* one entry per evaluation tick

vars == << now, alerts, alert_cooldowns, alert_configs, db_manager, zone_entry_times,
           daily_usage_stats, co2_exposure_tracking, high_humidity_start_times,
           sensor_class, hw_present, is_active, consecutive_failed_reads,
           connection_failures, current_reading, last_reading_time, updating,
           sample, reader, allocs, cleared, ops, last, history >>

managerVars == << alerts, alert_cooldowns, alert_configs, db_manager, zone_entry_times,
                  daily_usage_stats, co2_exposure_tracking, high_humidity_start_times,
                  allocs, cleared >>

sensorVars == << sensor_class, hw_present, is_active, consecutive_failed_reads,
                 connection_failures, current_reading, last_reading_time, updating,
                 sample >>

apiVars == << reader >>

---------------------------------------------------------------------------
(* Python helpers                                                          *)

\* dict.get(key, default)
Get(d, k, default) == IF k \in DOMAIN d THEN d[k] ELSE default

\* d[k] = v on a dict (adds the key when missing)
Put(d, k, v) == [x \in (DOMAIN d) \cup {k} |-> IF x = k THEN v ELSE d[x]]

\* del d[k]
Del(d, k) == [x \in (DOMAIN d) \ {k} |-> d[x]]

\* dict.update(other)
DictUpdate(d, other) ==
    [x \in (DOMAIN d) \cup (DOMAIN other) |-> IF x \in DOMAIN other THEN other[x] ELSE d[x]]

EmptyDict == [x \in {} |-> 0]

\* absent optional time (None)
NoTime == -1

Min(a, b) == IF a <= b THEN a ELSE b

\* the last n elements of a sequence (s[-n:] for 0 < n, and the whole of s when n >= len)
LastN(s, n) == SubSeq(s, Len(s) - Min(n, Len(s)) + 1, Len(s))

\* datetime.isoformat(): the record keeps the text form of the instant
isoformat(t) == << "iso8601", t >>

\* datetime.fromisoformat(s.replace('Z', '+00:00'))
fromisoformat(s) == s[2]

---------------------------------------------------------------------------
(* Alert store: deque(maxlen=1000)                                         *)

maxlen == 1000

DaySeconds == 86400

NoAssetId == "no-asset-id-assigned"

\* variant: append that never discards
deque_append_unbounded(dq, x) == Append(dq, x)

\* variant: a full deque discards its newest item instead of its oldest
deque_append_drop_newest(dq, x) ==
    IF Len(dq) >= maxlen THEN SubSeq(dq, 1, Len(dq) - 1) \o << x >> ELSE Append(dq, x)

\* deque.append on a bounded deque: a full deque discards one item from the left
deque_append(dq, x) ==
    IF Len(dq) >= maxlen THEN Tail(dq) \o << x >> ELSE Append(dq, x)

\* deque(iterable, maxlen=1000): keeps the last maxlen items of the iterable
deque_from(list) == LastN(list, maxlen)

\* the alert dict built by generate_alert / generate_alert_sync; the fields that
\* are the same literal in every alert are left out, obj is the identity of the dict
\* t_id is the clock read by time.time(), t_date the one read by datetime.now()
alert_dict(alert_type, asset_id, description, priority, zone_id, t_id, t_date, obj) ==
    [ AlertType   |-> alert_type,
      assetId     |-> asset_id,
      Description |-> description,
      Date        |-> isoformat(t_date),
      anchor      |-> zone_id,
      Stage       |-> "Active",
      id          |-> << "ALERT", alert_type, t_id >>,
      Priority    |-> priority,
      obj         |-> obj ]

\* variant: the id carries the minute of the emission instead of its second
generate_alert_sync_minute_id(store, n, alert_type, description, priority, zone_id, t) ==
    deque_append(store,
        alert_dict(alert_type, NoAssetId, description, priority, zone_id, t \div 60, t, n + 1))

\* generate_alert_sync: the store after the call, entered at clock value t
generate_alert_sync(store, n, alert_type, description, priority, zone_id, t) ==
    deque_append(store,
        alert_dict(alert_type, NoAssetId, description, priority, zone_id, t, t, n + 1))

\* generate_alert: resolved is what db_manager.get_alert_asset_id returned, or
\* "raise" when it raised; the await takes d seconds (0 without a db_manager)
generate_alert(store, n, has_db, resolved, alert_type, description, priority, zone_id, t, d) ==
    LET asset_id == IF has_db /\ resolved # "raise" THEN resolved ELSE NoAssetId
        t_date   == IF has_db THEN t + d ELSE t
    IN  deque_append(store,
            alert_dict(alert_type, asset_id, description, priority, zone_id, t, t_date, n + 1))

\* clear_old_alerts(days): the store after the call at clock value t
clear_old_alerts(store, days, t) ==
    LET cutoff_time == t - days * DaySeconds
        keep(alert) == fromisoformat(alert.Date) > cutoff_time
    IN  deque_from(SelectSeq(store, keep))

\* get_all_alerts: list(self.alerts)
get_all_alerts(store) == store

---------------------------------------------------------------------------
(* Configuration table (config/settings.py), the keys the rules read       *)

ALERT_CONFIGURATIONS ==
    [ Smart_HVAC_Load_Control |->
        [ enabled |-> TRUE, temp_threshold |-> 23, humidity_threshold |-> 60,
          air_quality_threshold |-> 1000, cooldown_minutes |-> 30, priority |-> "Medium" ],
      Predictive_Sick_Building_Alert |->
        [ enabled |-> TRUE, air_quality_ppm_threshold |-> 1500, humidity_threshold |-> 70,
          temperature_min |-> 16, temperature_max |-> 28,
          cooldown_minutes |-> 15, priority |-> "High" ],
      People_Density_Alert |->
        [ enabled |-> TRUE, motion_count_threshold |-> 15, distance_threshold |-> 100,
          vibration_threshold |-> 200, time_window_minutes |-> 10,
          cooldown_minutes |-> 10, priority |-> "High" ],
      Zone_Level_Attendance_Accuracy |->
        [ enabled |-> TRUE, motion_timeout_minutes |-> 20, radar_timeout_minutes |-> 15,
          cooldown_minutes |-> 20, priority |-> "Medium" ],
      Dehumidifier_Smart_Trigger |->
        [ enabled |-> TRUE, humidity_threshold |-> 75, duration_minutes |-> 15,
          temperature_factor |-> TRUE, cooldown_minutes |-> 20, priority |-> "High" ],
      Smart_Ventilation_Escalation |->
        [ enabled |-> TRUE, air_quality_ppm_threshold |-> 1200, dust_density_threshold |-> 50,
          motion_required |-> TRUE, cooldown_minutes |-> 10, priority |-> "High" ],
      Real_Time_ESG_Score |->
        [ enabled |-> TRUE, esg_score_threshold |-> 70,
          cooldown_minutes |-> 30, priority |-> "Medium" ],
      VIP_Room_Air_Quality |->
        [ enabled |-> TRUE, air_quality_ppm_max |-> 800, dust_density_max |-> 25,
          temp_min |-> 22, temp_max |-> 26, humidity_max |-> 60, light_level_min |-> 100,
          cooldown_minutes |-> 15, priority |-> "High" ],
      Facility_Cleaning_Trigger |->
        [ enabled |-> TRUE, dust_density_threshold |-> 75, humidity_threshold |-> 70,
          vibration_activity_threshold |-> 500, duration_minutes |-> 30,
          cooldown_minutes |-> 45, priority |-> "Medium" ],
      Carbon_Penalty_Avoidance |->
        [ enabled |-> TRUE, air_quality_ppm_threshold |-> 1000, exposure_hours_threshold |-> 2,
          dust_compliance_threshold |-> 150, cooldown_minutes |-> 60, priority |-> "High" ],
      Equipment_Vibration_Alert |->
        [ enabled |-> TRUE, vibration_threshold |-> 300,
          cooldown_minutes |-> 10, priority |-> "High" ],
      Security_Motion_Alert |->
        [ enabled |-> TRUE, cooldown_minutes |-> 5, priority |-> "High" ] ]

---------------------------------------------------------------------------
(* Initial states                                                          *)

\* the sensors of the model: one with setup_pins (DHT22) and the radar, which has
\* setup_serial instead
Sensors == { "temperature_humidity", "motion_radar" }

ConcreteClass ==
    [ temperature_humidity |-> "DHT22Sensor", motion_radar |-> "HLK_LD2420Sensor" ]

\* AlertManager.__init__
InitManager ==
    /\ alerts = << >>
    /\ alert_cooldowns = EmptyDict
    /\ alert_configs = ALERT_CONFIGURATIONS
    /\ db_manager = FALSE
    /\ zone_entry_times = EmptyDict
    /\ daily_usage_stats = EmptyDict
    /\ co2_exposure_tracking = EmptyDict
    /\ high_humidity_start_times = EmptyDict
    /\ allocs = 0
    /\ cleared = 0

\* no read of the store is in progress
InitApi == reader = [ pc |-> "idle" ]

InitBook ==
    /\ now = 0
    /\ ops = 0
    /\ last = [ op |-> "init" ]
    /\ history = << >>

\* BaseSensor.__init__ followed by the subclass's set-up (setup_pins / setup_serial),
\* which sets is_active to whether the driver could be initialised
InitSensors(classes, present) ==
    /\ sensor_class = classes
    /\ hw_present = present
    /\ is_active = [s \in Sensors |-> IF classes[s] = "BaseSensor" THEN FALSE ELSE present[s]]
    /\ consecutive_failed_reads = [s \in Sensors |-> 0]
    /\ connection_failures = [s \in Sensors |-> 0]
    /\ current_reading = [s \in Sensors |-> "empty"]
    /\ last_reading_time = [s \in Sensors |-> NoTime]
    /\ updating = [s \in Sensors |-> "idle"]
    /\ sample = [s \in Sensors |-> EmptyDict]

---------------------------------------------------------------------------
(* StoreSpec: the alert store under direct calls of its operations         *)

MaxOps == 3

FillGap == 1

BurstSize == 20

StoreTypes == { "Smart_HVAC_Load_Control", "People_Density_Alert" }

ResolverResults == { NoAssetId, "ASSET-7", "raise" }

StoreAdvances == { 1, 8 * DaySeconds }

ClearDays == { 0, 7 }

Delays == { 0, 1 }

\* operations start on the empty store or on a store filled close to its capacity
StoreOpAllowed ==
    /\ ops < MaxOps
    /\ ops > 0 \/ Len(alerts) = 0 \/ Len(alerts) >= maxlen - FillGap

\* k consecutive generate_alert_sync calls at clock value t
RECURSIVE burst(_, _, _, _)
burst(store, n, k, t) ==
    IF k = 0 THEN store
    ELSE burst(generate_alert_sync(store, n, "Smart_HVAC_Load_Control", "text", "Medium",
                                   "Zone-1", t), n + 1, k - 1, t)

\* bursts of generate_alert_sync calls that fill the store close to its capacity
\* before any other operation
GenerateAlertSyncBurst ==
    /\ ops = 0
    /\ Len(alerts) < maxlen - FillGap
    /\ LET k == Min(BurstSize, maxlen - FillGap - Len(alerts))
       IN  /\ alerts' = burst(alerts, allocs, k, now)
           /\ allocs' = allocs + k
           /\ last' = [ op |-> "generate_alert_sync", before |-> Len(alerts) + k - 1 ]
    /\ UNCHANGED << now, alert_cooldowns, alert_configs, db_manager, zone_entry_times,
                    daily_usage_stats, co2_exposure_tracking, high_humidity_start_times,
                    cleared, ops, history, sensorVars, apiVars >>

GenerateAlertSync ==
    /\ StoreOpAllowed
    /\ \E alert_type \in StoreTypes :
          alerts' = generate_alert_sync(alerts, allocs, alert_type, "text", "Medium",
                                        "Zone-1", now)
    /\ allocs' = allocs + 1
    /\ ops' = ops + 1
    /\ last' = [ op |-> "generate_alert_sync", before |-> Len(alerts) ]
    /\ UNCHANGED << now, alert_cooldowns, alert_configs, db_manager, zone_entry_times,
                    daily_usage_stats, co2_exposure_tracking, high_humidity_start_times,
                    cleared, history, sensorVars, apiVars >>

GenerateAlert ==
    /\ StoreOpAllowed
    /\ \E alert_type \in StoreTypes, resolved \in ResolverResults, d \in Delays :
          /\ alerts' = generate_alert(alerts, allocs, db_manager, resolved, alert_type,
                                      "text", "Medium", "Zone-1", now, d)
          /\ now' = IF db_manager THEN now + d ELSE now
    /\ allocs' = allocs + 1
    /\ ops' = ops + 1
    /\ last' = [ op |-> "generate_alert", before |-> Len(alerts) ]
    /\ UNCHANGED << alert_cooldowns, alert_configs, db_manager, zone_entry_times,
                    daily_usage_stats, co2_exposure_tracking, high_humidity_start_times,
                    cleared, history, sensorVars, apiVars >>

ClearOldAlerts ==
    /\ StoreOpAllowed
    /\ \E days \in ClearDays :
          /\ alerts' = clear_old_alerts(alerts, days, now)
          /\ last' = [ op |-> "clear_old_alerts", before |-> Len(alerts),
                       cutoff_time |-> now - days * DaySeconds ]
    /\ cleared' = cleared + (Len(alerts) - Len(alerts'))
    /\ ops' = ops + 1
    /\ UNCHANGED << now, alert_cooldowns, alert_configs, db_manager, zone_entry_times,
                    daily_usage_stats, co2_exposure_tracking, high_humidity_start_times,
                    allocs, history, sensorVars, apiVars >>

GetAllAlerts ==
    /\ StoreOpAllowed
    /\ last' = [ op |-> "get_all_alerts", result |-> get_all_alerts(alerts) ]
    /\ ops' = ops + 1
    /\ UNCHANGED << now, managerVars, history, sensorVars, apiVars >>

SetDbManager ==
    /\ StoreOpAllowed
    /\ ~db_manager
    /\ db_manager' = TRUE
    /\ last' = [ op |-> "set_db_manager" ]
    /\ ops' = ops + 1
    /\ UNCHANGED << now, alerts, alert_cooldowns, alert_configs, zone_entry_times,
                    daily_usage_stats, co2_exposure_tracking, high_humidity_start_times,
                    allocs, cleared, history, sensorVars, apiVars >>

StoreTimePasses ==
    /\ StoreOpAllowed
    /\ \E adv \in StoreAdvances : now' = now + adv
    /\ last' = [ op |-> "time" ]
    /\ ops' = ops + 1
    /\ UNCHANGED << managerVars, history, sensorVars, apiVars >>

StoreInit ==
    /\ InitManager
    /\ InitBook
    /\ InitApi
    /\ InitSensors(ConcreteClass, [s \in Sensors |-> TRUE])

StoreNext ==
    \/ GenerateAlertSyncBurst
    \/ GenerateAlertSync
    \/ GenerateAlert
    \/ ClearOldAlerts
    \/ GetAllAlerts
    \/ SetDbManager
    \/ StoreTimePasses

StoreSpec == StoreInit /\ [][StoreNext]_vars

---------------------------------------------------------------------------
(* Cooldown gate and rule evaluation                                       *)
(* A rule works on the record am of the manager's mutable fields; am.clock *)
(* is the wall clock, read by every datetime.now() of the rule.            *)

\* variant: an elapsed time equal to the cooldown is still refused
should_generate_alert_strict(cooldowns, alert_type, cooldown_minutes, t) ==
    IF alert_type \in DOMAIN cooldowns /\ (t - cooldowns[alert_type]) <= cooldown_minutes * 60
    THEN [ granted |-> FALSE, cooldowns |-> cooldowns ]
    ELSE [ granted |-> TRUE, cooldowns |-> Put(cooldowns, alert_type, t) ]

\* variant: a granted check does not record the time of the grant
should_generate_alert_forgetful(cooldowns, alert_type, cooldown_minutes, t) ==
    IF alert_type \in DOMAIN cooldowns /\ (t - cooldowns[alert_type]) < cooldown_minutes * 60
    THEN [ granted |-> FALSE, cooldowns |-> cooldowns ]
    ELSE [ granted |-> TRUE, cooldowns |-> cooldowns ]

\* should_generate_alert at clock value t: the answer and the cooldown dict after it
should_generate_alert(cooldowns, alert_type, cooldown_minutes, t) ==
    IF alert_type \in DOMAIN cooldowns /\ (t - cooldowns[alert_type]) < cooldown_minutes * 60
    THEN [ granted |-> FALSE, cooldowns |-> cooldowns ]
    ELSE [ granted |-> TRUE, cooldowns |-> Put(cooldowns, alert_type, t) ]

\* the manager's mutable fields, with the clock and whether the rule pass has
\* raised an exception
Manager(t) ==
    [ clock                     |-> t,
      raised                    |-> FALSE,
      alerts                    |-> alerts,
      allocs                    |-> allocs,
      alert_cooldowns           |-> alert_cooldowns,
      zone_entry_times          |-> zone_entry_times,
      daily_usage_stats         |-> daily_usage_stats,
      co2_exposure_tracking     |-> co2_exposure_tracking,
      high_humidity_start_times |-> high_humidity_start_times ]

\* variant: the cooldown is stamped with the time of the record, not of the check
emit_stamp_at_date(am, alert_type, cooldown, description, priority, zone_id, d) ==
    LET g == should_generate_alert(am.alert_cooldowns, alert_type, cooldown, am.clock)
    IN  IF g.granted
        THEN [ am EXCEPT !.alert_cooldowns = Put(am.alert_cooldowns, alert_type, am.clock + d),
                         !.alerts = generate_alert_sync(am.alerts, am.allocs, alert_type,
                                        description, priority, zone_id, am.clock + d),
                         !.allocs = @ + 1,
                         !.clock = @ + d ]
        ELSE am

\* `if self.should_generate_alert(type, cooldown): ... self.generate_alert_sync(...)`:
\* the check reads the clock, building the description takes d seconds, then
\* generate_alert_sync reads the clock again
emit(am, alert_type, cooldown, description, priority, zone_id, d) ==
    LET g == should_generate_alert(am.alert_cooldowns, alert_type, cooldown, am.clock)
    IN  IF g.granted
        THEN [ am EXCEPT !.alert_cooldowns = g.cooldowns,
                         !.alerts = generate_alert_sync(am.alerts, am.allocs, alert_type,
                                        description, priority, zone_id, am.clock + d),
                         !.allocs = @ + 1,
                         !.clock = @ + d ]
        ELSE am

\* truth value of a number or None in an `if`
Truthy(v) == v # 0 /\ v # NoTime

\* truth value of a dict
NonEmpty(d) == DOMAIN d # {}

\* the value of reading[key] is a number: `malformed` lists the keys of the payload
\* whose value is a string, for which `<` against a number raises TypeError
IsNumber(reading, key) == key \notin Get(reading, "malformed", {})

\* an exception leaves the rule where it is raised
raise(am) == [ am EXCEPT !.raised = TRUE ]

\* variant: the first active reading of a type is kept, later ones are dropped
RECURSIVE build_readings_dict_first_wins(_, _)
build_readings_dict_first_wins(readings_dict, sensor_readings) ==
    IF sensor_readings = << >> THEN readings_dict
    ELSE LET reading == Head(sensor_readings)
         IN  build_readings_dict_first_wins(
                 IF /\ Get(reading, "status", "missing") = "active"
                    /\ reading.sensor_type \notin DOMAIN readings_dict
                 THEN Put(readings_dict, reading.sensor_type, reading)
                 ELSE readings_dict,
                 Tail(sensor_readings))

\* the loop of check_all_alerts over sensor_readings: the last active reading of
\* each sensor type
RECURSIVE build_readings_dict(_, _)
build_readings_dict(readings_dict, sensor_readings) ==
    IF sensor_readings = << >> THEN readings_dict
    ELSE LET reading == Head(sensor_readings)
         IN  build_readings_dict(
                 IF Get(reading, "status", "missing") = "active"
                 THEN Put(readings_dict, reading.sensor_type, reading)
                 ELSE readings_dict,
                 Tail(sensor_readings))

\* variant: the rule is evaluated whether or not it is enabled
check_hvac_load_control_always(am, cfgs, readings, d) ==
    LET config == Get(cfgs, "Smart_HVAC_Load_Control", EmptyDict)
        temp_reading == Get(readings, "temperature_humidity", EmptyDict)
        air_reading == Get(readings, "air_quality", EmptyDict)
        temp == Get(temp_reading, "temperature_celsius", 0)
        humidity == Get(temp_reading, "humidity_percent", 0)
        gas_level == IF "gas_detected" \in DOMAIN air_reading
                     THEN (IF ~air_reading["gas_detected"] THEN "Low" ELSE "High")
                     ELSE "Unknown"
        temp_threshold == Get(config, "temp_threshold", 23)
        humidity_threshold == Get(config, "humidity_threshold", 60)
        cooldown == Get(config, "cooldown_minutes", 30)
        priority == Get(config, "priority", "Medium")
    IN  IF FALSE THEN am
        ELSE IF NonEmpty(temp_reading) /\ NonEmpty(air_reading)
        THEN IF temp # 0 /\ humidity # 0 /\ temp < temp_threshold
                /\ humidity > humidity_threshold
             THEN emit(am, "Smart_HVAC_Load_Control", cooldown,
                       << "hvac", temp, humidity, gas_level >>, priority, "Zone-1", d)
             ELSE am
        ELSE am

check_hvac_load_control(am, cfgs, readings, d) ==
    LET config == Get(cfgs, "Smart_HVAC_Load_Control", EmptyDict)
        temp_reading == Get(readings, "temperature_humidity", EmptyDict)
        air_reading == Get(readings, "air_quality", EmptyDict)
        temp == Get(temp_reading, "temperature_celsius", 0)
        humidity == Get(temp_reading, "humidity_percent", 0)
        gas_level == IF "gas_detected" \in DOMAIN air_reading
                     THEN (IF ~air_reading["gas_detected"] THEN "Low" ELSE "High")
                     ELSE "Unknown"
        temp_threshold == Get(config, "temp_threshold", 23)
        humidity_threshold == Get(config, "humidity_threshold", 60)
        cooldown == Get(config, "cooldown_minutes", 30)
        priority == Get(config, "priority", "Medium")
    IN  IF ~Get(config, "enabled", TRUE) THEN am
        ELSE IF NonEmpty(temp_reading) /\ NonEmpty(air_reading)
        THEN IF temp # 0 /\ humidity # 0 /\ temp < temp_threshold
                /\ humidity > humidity_threshold
             THEN emit(am, "Smart_HVAC_Load_Control", cooldown,
                       << "hvac", temp, humidity, gas_level >>, priority, "Zone-1", d)
             ELSE am
        ELSE am

check_sick_building_alert(am, cfgs, readings, d) ==
    LET config == Get(cfgs, "Predictive_Sick_Building_Alert", EmptyDict)
        air_reading == Get(readings, "air_quality", EmptyDict)
        motion_reading == Get(readings, "motion_sensor", EmptyDict)
        temp_reading == Get(readings, "temperature_humidity", EmptyDict)
        gas_detected == Get(air_reading, "gas_detected", FALSE)
        motion_detected == Get(motion_reading, "motion_detected", FALSE)
        humidity == Get(temp_reading, "humidity_percent", 0)
        temperature == Get(temp_reading, "temperature_celsius", 0)
        cooldown == Get(config, "cooldown_minutes", 15)
        priority == Get(config, "priority", "High")
    IN  IF ~Get(config, "enabled", TRUE) THEN am
        ELSE IF NonEmpty(air_reading) /\ NonEmpty(motion_reading) /\ NonEmpty(temp_reading)
        THEN IF gas_detected /\ motion_detected /\ humidity > 70
             THEN emit(am, "Predictive_Sick_Building_Alert", cooldown,
                       << "sick", gas_detected, motion_detected, humidity, temperature >>,
                       priority, "Zone-1", d)
             ELSE am
        ELSE am

\* timedelta(minutes=10) of check_people_density_alert
density_window_minutes == 10

\* variant: the event list is never pruned
prune_entries_keep_all(entries, current_time) == entries

\* [t for t in entries if t > current_time - timedelta(minutes=10)]
prune_entries(entries, current_time) ==
    LET cutoff_time == current_time - density_window_minutes * 60
        recent(t) == t > cutoff_time
    IN  SelectSeq(entries, recent)

\* variant: the alert is due as soon as the count reaches the threshold
check_people_density_alert_at_threshold(am, cfgs, readings, d) ==
    LET config == Get(cfgs, "People_Density_Alert", EmptyDict)
        ultrasonic_reading == Get(readings, "ultrasonic", EmptyDict)
        motion_reading == Get(readings, "motion_sensor", EmptyDict)
        distance == Get(ultrasonic_reading, "distance_cm", 200)
        motion_count == Get(motion_reading, "motion_count", 0)
        motion_detected == Get(motion_reading, "motion_detected", FALSE)
        current_time == am.clock
        zone_id == Get(ultrasonic_reading, "zone_id", "Zone-1")
        appended == Append(Get(am.zone_entry_times, zone_id, << >>), current_time)
        entries == prune_entries(appended, current_time)
        am1 == [ am EXCEPT !.zone_entry_times = Put(@, zone_id, entries) ]
        recent_entries == Len(entries)
        entry_threshold == Get(config, "entry_count_threshold", 10)
        cooldown == Get(config, "cooldown_minutes", 10)
        priority == Get(config, "priority", "High")
    IN  IF ~Get(config, "enabled", TRUE) THEN am
        ELSE IF NonEmpty(ultrasonic_reading) /\ NonEmpty(motion_reading)
        THEN IF motion_detected /\ ~IsNumber(ultrasonic_reading, "distance_cm")
             THEN raise(am)
             ELSE IF motion_detected /\ distance < 100
             THEN IF recent_entries >= entry_threshold
                  THEN emit(am1, "People_Density_Alert", cooldown,
                            << "density", recent_entries, distance, motion_count >>,
                            priority, zone_id, d)
                  ELSE am1
             ELSE am
        ELSE am

check_people_density_alert(am, cfgs, readings, d) ==
    LET config == Get(cfgs, "People_Density_Alert", EmptyDict)
        ultrasonic_reading == Get(readings, "ultrasonic", EmptyDict)
        motion_reading == Get(readings, "motion_sensor", EmptyDict)
        distance == Get(ultrasonic_reading, "distance_cm", 200)
        motion_count == Get(motion_reading, "motion_count", 0)
        motion_detected == Get(motion_reading, "motion_detected", FALSE)
        current_time == am.clock
        zone_id == Get(ultrasonic_reading, "zone_id", "Zone-1")
        appended == Append(Get(am.zone_entry_times, zone_id, << >>), current_time)
        entries == prune_entries(appended, current_time)
        am1 == [ am EXCEPT !.zone_entry_times = Put(@, zone_id, entries) ]
        recent_entries == Len(entries)
        entry_threshold == Get(config, "entry_count_threshold", 10)
        cooldown == Get(config, "cooldown_minutes", 10)
        priority == Get(config, "priority", "High")
    IN  IF ~Get(config, "enabled", TRUE) THEN am
        ELSE IF NonEmpty(ultrasonic_reading) /\ NonEmpty(motion_reading)
        THEN IF motion_detected /\ ~IsNumber(ultrasonic_reading, "distance_cm")
             THEN raise(am)
             ELSE IF motion_detected /\ distance < 100
             THEN IF recent_entries > entry_threshold
                  THEN emit(am1, "People_Density_Alert", cooldown,
                            << "density", recent_entries, distance, motion_count >>,
                            priority, zone_id, d)
                  ELSE am1
             ELSE am
        ELSE am

check_attendance_accuracy(am, cfgs, readings, d) ==
    LET config == Get(cfgs, "Zone_Level_Attendance_Accuracy", EmptyDict)
        motion_reading == Get(readings, "motion_sensor", EmptyDict)
        time_since_motion == Get(motion_reading, "time_since_motion_seconds", NoTime)
        motion_timeout_minutes == Get(config, "motion_timeout_minutes", 20)
        cooldown == Get(config, "cooldown_minutes", 20)
        priority == Get(config, "priority", "Medium")
    IN  IF ~Get(config, "enabled", TRUE) THEN am
        ELSE IF NonEmpty(motion_reading)
        THEN IF Truthy(time_since_motion) /\ time_since_motion > motion_timeout_minutes * 60
             THEN emit(am, "Zone_Level_Attendance_Accuracy", cooldown,
                       << "attendance", time_since_motion \div 60 >>, priority, "Zone-1", d)
             ELSE am
        ELSE am

check_dehumidifier_trigger(am, cfgs, readings, d) ==
    LET config == Get(cfgs, "Dehumidifier_Smart_Trigger", EmptyDict)
        temp_reading == Get(readings, "temperature_humidity", EmptyDict)
        humidity == Get(temp_reading, "humidity_percent", 0)
        temperature == Get(temp_reading, "temperature_celsius", 0)
        zone_id == Get(temp_reading, "zone_id", "Zone-1")
        humidity_threshold == Get(config, "humidity_threshold", 75)
        duration_minutes == Get(config, "duration_minutes", 15)
        cooldown == Get(config, "cooldown_minutes", 20)
        priority == Get(config, "priority", "High")
        duration == am.clock - am.high_humidity_start_times[zone_id]
    IN  IF ~Get(config, "enabled", TRUE) THEN am
        ELSE IF NonEmpty(temp_reading)
        THEN IF humidity > humidity_threshold
             THEN IF zone_id \notin DOMAIN am.high_humidity_start_times
                  THEN [ am EXCEPT !.high_humidity_start_times = Put(@, zone_id, am.clock) ]
                  ELSE IF duration > duration_minutes * 60
                       THEN emit(am, "Dehumidifier_Smart_Trigger", cooldown,
                                 << "dehumidifier", zone_id, humidity, duration \div 60,
                                    temperature >>, priority, zone_id, d)
                       ELSE am
             ELSE IF zone_id \in DOMAIN am.high_humidity_start_times
                  THEN [ am EXCEPT !.high_humidity_start_times = Del(@, zone_id) ]
                  ELSE am
        ELSE am

check_ventilation_escalation(am, cfgs, readings, d) ==
    LET config == Get(cfgs, "Smart_Ventilation_Escalation", EmptyDict)
        air_reading == Get(readings, "air_quality", EmptyDict)
        ultrasonic_reading == Get(readings, "ultrasonic", EmptyDict)
        motion_reading == Get(readings, "motion_sensor", EmptyDict)
        gas_detected == Get(air_reading, "gas_detected", FALSE)
        motion_detected == Get(motion_reading, "motion_detected", FALSE)
        motion_count == Get(motion_reading, "motion_count", 0)
        recent_motion == motion_count > 0 /\ motion_detected
        cooldown == Get(config, "cooldown_minutes", 10)
        priority == Get(config, "priority", "High")
        distance == IF NonEmpty(ultrasonic_reading)
                    THEN Get(ultrasonic_reading, "distance_cm", 200) ELSE 200
    IN  IF ~Get(config, "enabled", TRUE) THEN am
        ELSE IF NonEmpty(air_reading) /\ NonEmpty(motion_reading)
        THEN IF gas_detected /\ recent_motion
             THEN emit(am, "Smart_Ventilation_Escalation", cooldown,
                       << "ventilation", gas_detected, motion_detected, distance >>,
                       priority, "Zone-1", d)
             ELSE am
        ELSE am

\* esg_score is kept as the sum of the three scores: esg_score = score_sum / 3
check_esg_score(am, cfgs, readings, d) ==
    LET config == Get(cfgs, "Real_Time_ESG_Score", EmptyDict)
        temp_reading == Get(readings, "temperature_humidity", EmptyDict)
        air_reading == Get(readings, "air_quality", EmptyDict)
        temp == Get(temp_reading, "temperature_celsius", 0)
        humidity == Get(temp_reading, "humidity_percent", 0)
        gas_detected == Get(air_reading, "gas_detected", FALSE)
        temp_score == IF 20 <= temp /\ temp <= 26 THEN 100
                      ELSE IF 18 <= temp /\ temp <= 28 THEN 70 ELSE 40
        humidity_score == IF 40 <= humidity /\ humidity <= 60 THEN 100
                          ELSE IF 30 <= humidity /\ humidity <= 70 THEN 70 ELSE 40
        air_score == IF ~gas_detected THEN 100 ELSE 40
        score_sum == temp_score + humidity_score + air_score
        esg_score_threshold == Get(config, "esg_score_threshold", 70)
        cooldown == Get(config, "cooldown_minutes", 30)
        priority == Get(config, "priority", "Medium")
        zone_id == Get(temp_reading, "zone_id", "Zone-1")
    IN  IF ~Get(config, "enabled", TRUE) THEN am
        ELSE IF NonEmpty(temp_reading) /\ NonEmpty(air_reading)
        THEN IF score_sum < 3 * esg_score_threshold
             THEN emit(am, "Real_Time_ESG_Score", cooldown,
                       << "esg", zone_id, score_sum, temp, humidity, gas_detected >>,
                       priority, zone_id, d)
             ELSE am
        ELSE am

check_vip_air_quality(am, cfgs, readings, d) ==
    LET config == Get(cfgs, "VIP_Room_Air_Quality", EmptyDict)
        temp_reading == Get(readings, "temperature_humidity", EmptyDict)
        air_reading == Get(readings, "air_quality", EmptyDict)
        temp == Get(temp_reading, "temperature_celsius", 0)
        humidity == Get(temp_reading, "humidity_percent", 0)
        gas_detected == Get(air_reading, "gas_detected", FALSE)
        temp_min == Get(config, "temp_min", 22)
        temp_max == Get(config, "temp_max", 26)
        humidity_max == Get(config, "humidity_max", 60)
        cooldown == Get(config, "cooldown_minutes", 15)
        priority == Get(config, "priority", "High")
        zone_id == Get(temp_reading, "zone_id", "Zone-1")
    IN  IF ~Get(config, "enabled", TRUE) THEN am
        ELSE IF NonEmpty(temp_reading) /\ NonEmpty(air_reading)
        THEN IF temp_min <= temp /\ temp <= temp_max
                /\ (gas_detected \/ humidity > humidity_max)
             THEN emit(am, "VIP_Room_Air_Quality", cooldown,
                       << "vip", zone_id, temp, gas_detected, humidity > humidity_max,
                          humidity >>, priority, zone_id, d)
             ELSE am
        ELSE am

\* daily_usage_stats is a defaultdict(int): reading a missing key stores 0 under it
check_toilet_cleaning_trigger(am, cfgs, readings, d) ==
    LET config == Get(cfgs, "Toilet_Occupancy_Cleaning", EmptyDict)
        ultrasonic_reading == Get(readings, "ultrasonic", EmptyDict)
        temp_reading == Get(readings, "temperature_humidity", EmptyDict)
        motion_reading == Get(readings, "motion_sensor", EmptyDict)
        distance == Get(ultrasonic_reading, "distance_cm", 200)
        humidity == Get(temp_reading, "humidity_percent", 0)
        motion_count == Get(motion_reading, "motion_count", 0)
        zone_id == Get(ultrasonic_reading, "zone_id", "Zone-1")
        am1 == IF distance < 100
               THEN [ am EXCEPT !.daily_usage_stats =
                                    Put(@, zone_id, Get(@, zone_id, 0) + 1) ]
               ELSE am
        humidity_threshold == Get(config, "humidity_threshold", 70)
        duration_minutes == Get(config, "duration_minutes", 30)
        usage_threshold == Get(config, "usage_threshold", 25)
        cooldown == Get(config, "cooldown_minutes", 45)
        priority == Get(config, "priority", "Medium")
        duration == am1.clock - am1.high_humidity_start_times[zone_id]
        am2 == [ am1 EXCEPT !.daily_usage_stats = Put(@, zone_id, Get(@, zone_id, 0)) ]
    IN  IF ~Get(config, "enabled", TRUE) THEN am
        ELSE IF NonEmpty(ultrasonic_reading) /\ NonEmpty(temp_reading)
                /\ NonEmpty(motion_reading)
        THEN IF ~IsNumber(ultrasonic_reading, "distance_cm")
             THEN raise(am)
             ELSE IF humidity > humidity_threshold
             THEN IF zone_id \notin DOMAIN am1.high_humidity_start_times
                  THEN [ am1 EXCEPT !.high_humidity_start_times =
                                        Put(@, zone_id, am1.clock) ]
                  ELSE IF duration > duration_minutes * 60
                       THEN LET e == emit(am1, "Toilet_Occupancy_Cleaning", cooldown,
                                         << "toilet", zone_id,
                                            Get(am1.daily_usage_stats, zone_id, 0),
                                            humidity, duration \div 60, motion_count >>,
                                         priority, zone_id, d)
                            IN  IF e.allocs # am1.allocs
                                THEN [ e EXCEPT !.daily_usage_stats =
                                                    Put(@, zone_id, Get(@, zone_id, 0)) ]
                                ELSE e
                       ELSE IF am2.daily_usage_stats[zone_id] > usage_threshold
                       THEN emit(am2, "Toilet_Occupancy_Cleaning", cooldown,
                                 << "toilet", zone_id, am2.daily_usage_stats[zone_id],
                                    humidity, duration \div 60, motion_count >>,
                                 priority, zone_id, d)
                       ELSE am2
             ELSE IF zone_id \in DOMAIN am1.high_humidity_start_times
                  THEN [ am1 EXCEPT !.high_humidity_start_times = Del(@, zone_id) ]
                  ELSE am1
        ELSE am

\* the unit of co2_exposure_tracking is 1/3600 hour, the amount one tick adds
exposure_units_per_hour == 3600

\* variant: the exposure starts again from 0 on a tick without gas
check_carbon_penalty_avoidance_reset(am, cfgs, readings, d) ==
    LET config == Get(cfgs, "Carbon_Penalty_Avoidance", EmptyDict)
        air_reading == Get(readings, "air_quality", EmptyDict)
        gas_detected == Get(air_reading, "gas_detected", FALSE)
        zone_id == Get(air_reading, "zone_id", "Zone-1")
        exposure_hours_threshold == Get(config, "exposure_hours_threshold", 2)
        cooldown == Get(config, "cooldown_minutes", 60)
        priority == Get(config, "priority", "High")
        exposure == IF gas_detected THEN Get(am.co2_exposure_tracking, zone_id, 0) + 1
                    ELSE 0
        am1 == [ am EXCEPT !.co2_exposure_tracking = Put(@, zone_id, exposure) ]
    IN  IF ~Get(config, "enabled", TRUE) THEN am
        ELSE IF NonEmpty(air_reading)
        THEN IF exposure > exposure_hours_threshold * exposure_units_per_hour
             THEN emit(am1, "Carbon_Penalty_Avoidance", cooldown,
                       << "carbon", zone_id, exposure, gas_detected >>, priority, zone_id, d)
             ELSE am1
        ELSE am

\* co2_exposure_tracking is a defaultdict(float): the comparison stores the key
check_carbon_penalty_avoidance(am, cfgs, readings, d) ==
    LET config == Get(cfgs, "Carbon_Penalty_Avoidance", EmptyDict)
        air_reading == Get(readings, "air_quality", EmptyDict)
        gas_detected == Get(air_reading, "gas_detected", FALSE)
        zone_id == Get(air_reading, "zone_id", "Zone-1")
        exposure_hours_threshold == Get(config, "exposure_hours_threshold", 2)
        cooldown == Get(config, "cooldown_minutes", 60)
        priority == Get(config, "priority", "High")
        exposure == Get(am.co2_exposure_tracking, zone_id, 0)
                        + (IF gas_detected THEN 1 ELSE 0)
        am1 == [ am EXCEPT !.co2_exposure_tracking = Put(@, zone_id, exposure) ]
    IN  IF ~Get(config, "enabled", TRUE) THEN am
        ELSE IF NonEmpty(air_reading)
        THEN IF exposure > exposure_hours_threshold * exposure_units_per_hour
             THEN emit(am1, "Carbon_Penalty_Avoidance", cooldown,
                       << "carbon", zone_id, exposure, gas_detected >>, priority, zone_id, d)
             ELSE am1
        ELSE am

\* the k-th rule of check_all_alerts
apply_rule(k, am, cfgs, readings, d) ==
    CASE k = 1 -> check_hvac_load_control(am, cfgs, readings, d)
      [] k = 2 -> check_sick_building_alert(am, cfgs, readings, d)
      [] k = 3 -> check_people_density_alert(am, cfgs, readings, d)
      [] k = 4 -> check_attendance_accuracy(am, cfgs, readings, d)
      [] k = 5 -> check_dehumidifier_trigger(am, cfgs, readings, d)
      [] k = 6 -> check_ventilation_escalation(am, cfgs, readings, d)
      [] k = 7 -> check_esg_score(am, cfgs, readings, d)
      [] k = 8 -> check_vip_air_quality(am, cfgs, readings, d)
      [] k = 9 -> check_toilet_cleaning_trigger(am, cfgs, readings, d)
      [] k = 10 -> check_carbon_penalty_avoidance(am, cfgs, readings, d)

\* the rule calls of check_all_alerts in order: entry k + 1 is the manager after the
\* k-th call; no call is wrapped in try/except, so an exception ends the pass
RECURSIVE rule_pass(_, _, _, _, _)
rule_pass(k, am, cfgs, readings, d) ==
    IF k = 0 THEN << am >>
    ELSE LET done == rule_pass(k - 1, am, cfgs, readings, d)
             prev == done[Len(done)]
         IN  Append(done, IF prev.raised THEN prev
                          ELSE apply_rule(k, prev, cfgs, readings, d))

\* check_all_alerts, call by call: the snapshot of the active readings, the return
\* on an empty snapshot, then the ten rules
evaluation(am, cfgs, sensor_readings, d) ==
    LET readings_dict == build_readings_dict(EmptyDict, sensor_readings)
    IN  IF ~NonEmpty(readings_dict) THEN [k \in 1 .. 11 |-> am]
        ELSE rule_pass(10, am, cfgs, readings_dict, d)

\* check_all_alerts: the manager when the call returns or raises
check_all_alerts(am, cfgs, sensor_readings, d) ==
    evaluation(am, cfgs, sensor_readings, d)[11]

\* variant: an unknown alert type gets a fresh configuration instead of ValueError
update_alert_config_create(cfgs, alert_type, config_updates) ==
    IF alert_type \notin DOMAIN cfgs
    THEN [ raised |-> FALSE, alert_configs |-> Put(cfgs, alert_type, config_updates),
           updated_config |-> config_updates ]
    ELSE [ raised |-> FALSE,
           alert_configs |-> Put(cfgs, alert_type, DictUpdate(cfgs[alert_type], config_updates)),
           updated_config |-> DictUpdate(cfgs[alert_type], config_updates) ]

\* variant: the patch replaces the configuration instead of being merged into it
update_alert_config_replace(cfgs, alert_type, config_updates) ==
    IF alert_type \notin DOMAIN cfgs
    THEN [ raised |-> TRUE, alert_configs |-> cfgs ]
    ELSE [ raised |-> FALSE,
           alert_configs |-> Put(cfgs, alert_type, config_updates),
           updated_config |-> config_updates ]

\* update_alert_config: the configs after the call, and whether it raised ValueError
update_alert_config(cfgs, alert_type, config_updates) ==
    IF alert_type \notin DOMAIN cfgs
    THEN [ raised |-> TRUE, alert_configs |-> cfgs ]
    ELSE [ raised |-> FALSE,
           alert_configs |-> Put(cfgs, alert_type, DictUpdate(cfgs[alert_type], config_updates)),
           updated_config |-> DictUpdate(cfgs[alert_type], config_updates) ]

---------------------------------------------------------------------------
(* Sensors: BaseSensor and the concrete classes                            *)

max_connection_failures == 5

\* what the hardware does when it is read: delivers a sample, delivers nothing
\* usable (time-out, out-of-range value, no bytes waiting), or the driver raises
HwOutcomes == { "data", "none", "raise" }

\* read_sensor_data: "data", "none" (None) or "raise".
\*   BaseSensor        the abstract method: whatever the subclass's hardware does
\*   DHT22Sensor       None unless is_active and the driver is present; every
\*                     driver failure is caught and returned as None
\*   HLK_LD2420Sensor  None unless is_active and the serial port is open; a dict
\*                     even when no bytes are waiting; None when the port raises
read_sensor_data(cls, active, present, hw) ==
    CASE cls = "BaseSensor" -> hw
      [] cls = "DHT22Sensor" ->
            IF ~active \/ ~present THEN "none"
            ELSE IF hw = "data" THEN "data" ELSE "none"
      [] cls = "HLK_LD2420Sensor" ->
            IF ~active \/ ~present THEN "none"
            ELSE IF hw = "raise" THEN "none" ELSE "data"

\* the fields of one sensor object
SensorState(s) ==
    [ is_active                |-> is_active[s],
      consecutive_failed_reads |-> consecutive_failed_reads[s],
      connection_failures      |-> connection_failures[s],
      current_reading          |-> current_reading[s],
      last_reading_time        |-> last_reading_time[s] ]

\* variant: deactivates only after more than max_connection_failures failures
update_reading_late(st, data, t) ==
    IF data = "data"
    THEN [ st EXCEPT !.current_reading = "data", !.last_reading_time = t,
                     !.connection_failures = 0, !.consecutive_failed_reads = 0,
                     !.is_active = TRUE ]
    ELSE IF st.is_active
         THEN IF st.consecutive_failed_reads + 1 > max_connection_failures
              THEN [ st EXCEPT !.consecutive_failed_reads = @ + 1, !.is_active = FALSE,
                               !.current_reading = "empty", !.connection_failures = @ + 1 ]
              ELSE [ st EXCEPT !.consecutive_failed_reads = @ + 1 ]
         ELSE st

\* variant: a successful read does not restart the failure count
update_reading_no_reset(st, data, t) ==
    IF data = "data"
    THEN [ st EXCEPT !.current_reading = "data", !.last_reading_time = t,
                     !.connection_failures = 0, !.is_active = TRUE ]
    ELSE IF st.is_active
         THEN IF st.consecutive_failed_reads + 1 >= max_connection_failures
              THEN [ st EXCEPT !.consecutive_failed_reads = @ + 1, !.is_active = FALSE,
                               !.current_reading = "empty", !.connection_failures = @ + 1 ]
              ELSE [ st EXCEPT !.consecutive_failed_reads = @ + 1 ]
         ELSE st

\* variant: an exception of read_sensor_data deactivates the sensor at once
update_reading_except_deactivates(st, data, t) ==
    IF data = "data"
    THEN [ st EXCEPT !.current_reading = "data", !.last_reading_time = t,
                     !.connection_failures = 0, !.consecutive_failed_reads = 0,
                     !.is_active = TRUE ]
    ELSE IF data = "none"
    THEN IF st.is_active
         THEN IF st.consecutive_failed_reads + 1 >= max_connection_failures
              THEN [ st EXCEPT !.consecutive_failed_reads = @ + 1, !.is_active = FALSE,
                               !.current_reading = "empty", !.connection_failures = @ + 1 ]
              ELSE [ st EXCEPT !.consecutive_failed_reads = @ + 1 ]
         ELSE st
    ELSE IF st.is_active
         THEN [ st EXCEPT !.consecutive_failed_reads = @ + 1, !.is_active = FALSE,
                          !.connection_failures = @ + 1, !.current_reading = "empty" ]
         ELSE st

\* variant: a failed read counts whether or not the sensor is Active
update_reading_counts_inactive(st, data, t) ==
    IF data = "data"
    THEN [ st EXCEPT !.current_reading = "data", !.last_reading_time = t,
                     !.connection_failures = 0, !.consecutive_failed_reads = 0,
                     !.is_active = TRUE ]
    ELSE IF st.consecutive_failed_reads + 1 >= max_connection_failures
         THEN [ st EXCEPT !.consecutive_failed_reads = @ + 1, !.is_active = FALSE,
                          !.current_reading = "empty", !.connection_failures = @ + 1 ]
         ELSE [ st EXCEPT !.consecutive_failed_reads = @ + 1 ]

\* update_reading: the sensor's fields after the call; data is what
\* read_sensor_data did ("data", "none" or "raise"), t the clock
update_reading(st, data, t) ==
    IF data = "data"
    THEN [ st EXCEPT !.current_reading = "data", !.last_reading_time = t,
                     !.connection_failures = 0, !.consecutive_failed_reads = 0,
                     !.is_active = TRUE ]
    ELSE IF data = "none"
    THEN \* the else branch of `if data is not None`
         IF st.is_active
         THEN IF st.consecutive_failed_reads + 1 >= max_connection_failures
              THEN [ st EXCEPT !.consecutive_failed_reads = @ + 1, !.is_active = FALSE,
                               !.current_reading = "empty", !.connection_failures = @ + 1 ]
              ELSE [ st EXCEPT !.consecutive_failed_reads = @ + 1 ]
         ELSE st
    ELSE \* the `except Exception` branch
         IF st.is_active
         THEN IF st.consecutive_failed_reads + 1 >= max_connection_failures
              THEN [ st EXCEPT !.consecutive_failed_reads = @ + 1, !.is_active = FALSE,
                               !.connection_failures = @ + 1, !.current_reading = "empty" ]
              ELSE [ st EXCEPT !.consecutive_failed_reads = @ + 1 ]
         ELSE st

\* reset_connection
reset_connection(st) ==
    [ st EXCEPT !.connection_failures = 0, !.consecutive_failed_reads = 0 ]

\* setup_pins, for the classes that have it (hasattr(self, 'setup_pins'))
setup_pins(cls, st, present) ==
    IF cls = "DHT22Sensor" THEN [ st EXCEPT !.is_active = present ] ELSE st

\* force_reconnect: reset_connection, setup_pins when the class has it, update_reading
force_reconnect(cls, st, present, hw, t) ==
    LET st1 == setup_pins(cls, reset_connection(st), present)
    IN  update_reading(st1, read_sensor_data(cls, st1.is_active, present, hw), t)

\* what the hardware of sensor s can do: nothing when its driver never came up
HwChoices(s) == IF hw_present[s] THEN HwOutcomes ELSE { "none" }

\* write the fields of sensor s
SetSensor(s, st) ==
    /\ is_active' = [is_active EXCEPT ![s] = st.is_active]
    /\ consecutive_failed_reads' =
          [consecutive_failed_reads EXCEPT ![s] = st.consecutive_failed_reads]
    /\ connection_failures' = [connection_failures EXCEPT ![s] = st.connection_failures]
    /\ current_reading' = [current_reading EXCEPT ![s] = st.current_reading]
    /\ last_reading_time' = [last_reading_time EXCEPT ![s] = st.last_reading_time]

\* one update_reading call on sensor s
UpdateReading ==
    \E s \in Sensors, hw \in HwOutcomes :
       LET data == read_sensor_data(sensor_class[s], is_active[s], hw_present[s], hw)
       IN  /\ hw \in HwChoices(s)
           /\ SetSensor(s, update_reading(SensorState(s), data, now))
           /\ last' = [ op |-> "update_reading", sensor |-> s, hw |-> hw, data |-> data,
                        before |-> SensorState(s) ]
           /\ UNCHANGED << now, managerVars, sensor_class, hw_present, updating, sample, ops,
                           history, apiVars >>

ResetConnection ==
    \E s \in Sensors :
       /\ SetSensor(s, reset_connection(SensorState(s)))
       /\ last' = [ op |-> "reset_connection", sensor |-> s, before |-> SensorState(s) ]
       /\ UNCHANGED << now, managerVars, sensor_class, hw_present, updating, sample, ops,
                           history, apiVars >>

ForceReconnect ==
    \E s \in Sensors, hw \in HwOutcomes :
       /\ hw \in HwChoices(s)
       /\ SetSensor(s, force_reconnect(sensor_class[s], SensorState(s), hw_present[s], hw, now))
       /\ last' = [ op |-> "force_reconnect", sensor |-> s, hw |-> hw,
                    before |-> SensorState(s) ]
       /\ UNCHANGED << now, managerVars, sensor_class, hw_present, updating, sample, ops,
                           history, apiVars >>

\* SensorManager.update_all_sensors: update_reading on every sensor (the diagnostics
\* counters it keeps are statistics that no modelled operation reads)
UpdateAllSensors ==
    \E hw \in [Sensors -> HwOutcomes] :
       LET data == [s \in Sensors |->
                       read_sensor_data(sensor_class[s], is_active[s], hw_present[s], hw[s])]
           st   == [s \in Sensors |-> update_reading(SensorState(s), data[s], now)]
       IN  /\ \A s \in Sensors : hw[s] \in HwChoices(s)
           /\ is_active' = [s \in Sensors |-> st[s].is_active]
           /\ consecutive_failed_reads' = [s \in Sensors |-> st[s].consecutive_failed_reads]
           /\ connection_failures' = [s \in Sensors |-> st[s].connection_failures]
           /\ current_reading' = [s \in Sensors |-> st[s].current_reading]
           /\ last_reading_time' = [s \in Sensors |-> st[s].last_reading_time]
           /\ last' = [ op |-> "update_all_sensors", hw |-> hw, data |-> data,
                        before |-> [s \in Sensors |-> SensorState(s)] ]
           /\ UNCHANGED << now, managerVars, sensor_class, hw_present, updating, sample, ops,
                           history, apiVars >>

\* BaseSensorSpec: BaseSensor objects whose read_sensor_data is the abstract method
BaseSensorInit ==
    /\ InitManager
    /\ InitBook
    /\ InitApi
    /\ InitSensors([s \in Sensors |-> "BaseSensor"], [s \in Sensors |-> TRUE])

BaseSensorNext ==
    \/ UpdateReading
    \/ ResetConnection
    \/ ForceReconnect

BaseSensorSpec == BaseSensorInit /\ [][BaseSensorNext]_vars

\* SensorSpec: the sensors SensorManager builds, updated by the tick loop and
\* reconnected through force_sensor_reconnect
SensorInit ==
    /\ InitManager
    /\ InitBook
    /\ InitApi
    /\ \E present \in [Sensors -> BOOLEAN] : InitSensors(ConcreteClass, present)

SensorNext ==
    \/ UpdateAllSensors
    \/ ForceReconnect

SensorSpec == SensorInit /\ [][SensorNext]_vars

---------------------------------------------------------------------------
(* GateSpec: the cooldown gate under direct calls, with configuration      *)
(* updates and the passage of time between them                            *)

MaxCalls == 3

GateTypes == { "Smart_HVAC_Load_Control", "People_Density_Alert" }

GateCooldowns == { 0, 1 }

GateAdvances == { 1, 60, 1800 }

ConfigTypes == GateTypes \cup { "Unknown_Alert" }

\* bodies of PUT /alerts/config/{alert_type}: any dict is passed on unvalidated
ConfigUpdates ==
    { [x \in {"cooldown_minutes"} |-> c] : c \in { -1, 0, 1 } }
        \cup { [x \in {"enabled"} |-> FALSE] }

\* one call of should_generate_alert; `configured` tells whether the cooldown passed
\* is the rule's configured cooldown_minutes, as the rules pass it
ShouldGenerateAlert ==
    /\ ops < MaxCalls
    /\ \E alert_type \in GateTypes :
         \E cooldown_minutes \in
                GateCooldowns \cup { Get(alert_configs[alert_type], "cooldown_minutes", 0) } :
            LET g == should_generate_alert(alert_cooldowns, alert_type, cooldown_minutes, now)
                call == [ op |-> "should_generate_alert",
                          alert_type |-> alert_type,
                          cooldown_minutes |-> cooldown_minutes,
                          configured |-> cooldown_minutes
                              = Get(alert_configs[alert_type], "cooldown_minutes", 0),
                          t |-> now,
                          before |-> alert_cooldowns,
                          granted |-> g.granted ]
            IN  /\ alert_cooldowns' = g.cooldowns
                /\ last' = call
                /\ history' = Append(history, call)
    /\ ops' = ops + 1
    /\ UNCHANGED << now, alerts, alert_configs, db_manager, zone_entry_times,
                    daily_usage_stats, co2_exposure_tracking, high_humidity_start_times,
                    allocs, cleared, sensorVars, apiVars >>

UpdateAlertConfig ==
    /\ ops < MaxCalls
    /\ \E alert_type \in ConfigTypes, config_updates \in ConfigUpdates :
         LET r == update_alert_config(alert_configs, alert_type, config_updates)
         IN  /\ alert_configs' = r.alert_configs
             /\ last' = [ op |-> "update_alert_config", alert_type |-> alert_type,
                          config_updates |-> config_updates, raised |-> r.raised ]
    /\ ops' = ops + 1
    /\ UNCHANGED << now, alerts, alert_cooldowns, db_manager, zone_entry_times,
                    daily_usage_stats, co2_exposure_tracking, high_humidity_start_times,
                    allocs, cleared, history, sensorVars, apiVars >>

GateTimePasses ==
    /\ ops < MaxCalls
    /\ \E adv \in GateAdvances : now' = now + adv
    /\ last' = [ op |-> "time" ]
    /\ ops' = ops + 1
    /\ UNCHANGED << managerVars, history, sensorVars, apiVars >>

GateInit ==
    /\ InitManager
    /\ InitBook
    /\ InitApi
    /\ InitSensors(ConcreteClass, [s \in Sensors |-> TRUE])

GateNext ==
    \/ ShouldGenerateAlert
    \/ UpdateAlertConfig
    \/ GateTimePasses

GateSpec == GateInit /\ [][GateNext]_vars

---------------------------------------------------------------------------
(* TickSpec: evaluation ticks, each one call of check_all_alerts on the    *)
(* readings of that tick                                                   *)

MaxTicks == 3

TickAdvances == { 1, 600, 1799 }

\* get_reading of each sensor type, with the fields the rules read
dht22_reading(status, temp, humidity) ==
    [ sensor_type |-> "temperature_humidity", zone_id |-> "Zone-1", status |-> status,
      temperature_celsius |-> temp, humidity_percent |-> humidity ]

mq135_reading(status, gas_detected) ==
    [ sensor_type |-> "air_quality", zone_id |-> "Zone-1", status |-> status,
      gas_detected |-> gas_detected ]

hcsr04_reading(status, distance) ==
    [ sensor_type |-> "ultrasonic", zone_id |-> "Zone-1", status |-> status,
      distance_cm |-> distance ]

\* an ultrasonic reading whose distance_cm is a string
hcsr04_reading_text(status) ==
    [ sensor_type |-> "ultrasonic", zone_id |-> "Zone-1", status |-> status,
      distance_cm |-> 0, malformed |-> { "distance_cm" } ]

motion_sensor_reading(status, motion_detected, motion_count, since) ==
    [ sensor_type |-> "motion_sensor", zone_id |-> "Zone-1", status |-> status,
      motion_detected |-> motion_detected, motion_count |-> motion_count,
      time_since_motion_seconds |-> since ]

\* check_all_alerts takes any list of reading dicts.  The rules read a reading of
\* sensor_type "motion_sensor"; the sensors of SensorManager report "motion_radar"
\* for the radar, so such a reading reaches a tick only from a caller that supplies it.
\* the lists handed to a tick: cool and humid air; the same with a
\* person close to the door; warm, very humid, foul air with a person; no active sensor
TickReadings ==
    { << dht22_reading("active", 21, 65), mq135_reading("active", FALSE) >>,
      << dht22_reading("active", 21, 65), mq135_reading("active", FALSE),
         hcsr04_reading("active", 50), motion_sensor_reading("active", TRUE, 3, 0) >>,
      << dht22_reading("active", 24, 80), mq135_reading("active", TRUE),
         hcsr04_reading("active", 50), motion_sensor_reading("active", TRUE, 3, 0) >>,
      << dht22_reading("inactive", 21, 65), mq135_reading("inactive", FALSE) >> }

\* the alert types of the records a tick appended
Emitted(before, after) ==
    { after[i].AlertType : i \in (Len(before) + 1) .. Len(after) }

\* what the rules keep between ticks, for the record of a tick
Trackers(am) ==
    [ clock                     |-> am.clock,
      raised                    |-> am.raised,
      emitted                   |-> Emitted(alerts, am.alerts),
      alert_cooldowns           |-> am.alert_cooldowns,
      zone_entry_times          |-> am.zone_entry_times,
      daily_usage_stats         |-> am.daily_usage_stats,
      co2_exposure_tracking     |-> am.co2_exposure_tracking,
      high_humidity_start_times |-> am.high_humidity_start_times ]

\* check_all_alerts(sensor_readings) entered at clock value t: the manager's fields
\* and the record of the tick
Evaluate(t, d, sensor_readings) ==
    \E pass \in { evaluation(Manager(t), alert_configs, sensor_readings, d) } :
         LET am == pass[11]
         IN  /\ alerts' = am.alerts
             /\ allocs' = am.allocs
             /\ alert_cooldowns' = am.alert_cooldowns
             /\ zone_entry_times' = am.zone_entry_times
             /\ daily_usage_stats' = am.daily_usage_stats
             /\ co2_exposure_tracking' = am.co2_exposure_tracking
             /\ high_humidity_start_times' = am.high_humidity_start_times
             /\ now' = am.clock
             /\ last' = [ op |-> "check_all_alerts", t |-> t,
                          sensor_readings |-> sensor_readings,
                          alert_configs |-> alert_configs,
                          entries_before |-> zone_entry_times,
                          appended |-> am.allocs - allocs,
                          steps |-> [k \in 1 .. 11 |-> Trackers(pass[k])] ]
             /\ history' = Append(history,
                                  [ t |-> t, sensor_readings |-> sensor_readings,
                                    emitted |-> Emitted(alerts, am.alerts),
                                    density_time |-> pass[3].clock,
                                    dehumidifier_time |-> pass[5].clock,
                                    high_humidity_start_times |->
                                        am.high_humidity_start_times ])

\* one iteration of background_sensor_loop's evaluation: adv seconds after the last
\* clock read, check_all_alerts runs on the tick's readings; an exception it raises
\* is caught and logged by the loop
Tick(advances, delays, readings, max_ticks) ==
    /\ ops < max_ticks
    /\ \E adv \in advances, d \in delays, sensor_readings \in readings :
          Evaluate(now + adv, d, sensor_readings)
    /\ ops' = ops + 1
    /\ UNCHANGED << alert_configs, db_manager, cleared, sensorVars, apiVars >>

CheckAllAlerts == Tick(TickAdvances, Delays, TickReadings, MaxTicks)

TickInit ==
    /\ InitManager
    /\ InitBook
    /\ InitApi
    /\ InitSensors(ConcreteClass, [s \in Sensors |-> TRUE])

TickNext == CheckAllAlerts

TickSpec == TickInit /\ [][TickNext]_vars

---------------------------------------------------------------------------
(* HumiditySpec: ticks that observe the humidity of one zone, with and     *)
(* without the readings the toilet rule needs                              *)

MaxHumidityTicks == 4

HumidityAdvances == { 60, 600, 870 }

HumidityDelays == { 0 }

\* humidity 80 % (above both thresholds) or 72 % (between the toilet rule's default
\* threshold, 70, and the dehumidifier rule's, 75); alone, or with the ultrasonic
\* and motion_sensor readings that check_toilet_cleaning_trigger requires
HumidityReadings ==
    { << dht22_reading("active", 24, 80) >>,
      << dht22_reading("active", 24, 72) >>,
      << dht22_reading("active", 24, 80), hcsr04_reading("active", 150),
         motion_sensor_reading("active", FALSE, 0, NoTime) >>,
      << dht22_reading("active", 24, 72), hcsr04_reading("active", 150),
         motion_sensor_reading("active", FALSE, 0, NoTime) >> }

HumidityTick == Tick(HumidityAdvances, HumidityDelays, HumidityReadings, MaxHumidityTicks)

HumidityInit ==
    /\ InitManager
    /\ InitBook
    /\ InitApi
    /\ InitSensors(ConcreteClass, [s \in Sensors |-> TRUE])

HumidityNext == HumidityTick

HumiditySpec == HumidityInit /\ [][HumidityNext]_vars

---------------------------------------------------------------------------
(* DensitySpec: the entry threshold of People_Density_Alert is configured, *)
(* then a person stays close to the sensor: one proximity event a second   *)
(* for the first DensityPrefix ticks, free ticks after them                *)

MaxDensityTicks == 23

DensityPrefix == 18

DensityThresholds == { 19 }

DensityAdvances == { 1, 300, 600 }

\* a person moving within 100 cm of the sensor (a proximity event), or nobody near
ProximityReadings ==
    << hcsr04_reading("active", 50), motion_sensor_reading("active", TRUE, 3, 0) >>

DensityReadings ==
    { ProximityReadings,
      << hcsr04_reading("active", 150), motion_sensor_reading("active", FALSE, 3, 5) >> }

ConfigureDensity ==
    /\ ops = 0
    /\ \E threshold \in DensityThresholds :
         LET config_updates == [x \in {"entry_count_threshold"} |-> threshold]
             r == update_alert_config(alert_configs, "People_Density_Alert", config_updates)
         IN  /\ alert_configs' = r.alert_configs
             /\ last' = [ op |-> "update_alert_config", alert_type |-> "People_Density_Alert",
                          config_updates |-> config_updates, raised |-> r.raised ]
    /\ ops' = ops + 1
    /\ UNCHANGED << now, alerts, alert_cooldowns, db_manager, zone_entry_times,
                    daily_usage_stats, co2_exposure_tracking, high_humidity_start_times,
                    allocs, cleared, history, sensorVars, apiVars >>

DensityTick ==
    /\ ops >= 1
    /\ IF Len(history) < DensityPrefix
       THEN Tick({ 1 }, { 0 }, { ProximityReadings }, MaxDensityTicks)
       ELSE Tick(DensityAdvances, Delays, DensityReadings, MaxDensityTicks)

DensityInit ==
    /\ InitManager
    /\ InitBook
    /\ InitApi
    /\ InitSensors(ConcreteClass, [s \in Sensors |-> TRUE])

DensityNext ==
    \/ ConfigureDensity
    \/ DensityTick

DensitySpec == DensityInit /\ [][DensityNext]_vars

---------------------------------------------------------------------------
(* RuleSpec: ticks on readings with present, absent and malformed sensor   *)
(* types, between updates of the rules' enabled flags                      *)

MaxRuleTicks == 4

RuleAdvances == { 1 }

RuleDelays == { 0 }

Zones == { "Zone-1", "Zone-2" }

\* cool humid air; foul humid air with a person near; the same with a distance that is
\* a string; the same with the temperature sensor inactive; humid air alone; foul air
\* reported for another zone; no active sensor
RuleReadings ==
    { << dht22_reading("active", 21, 65), mq135_reading("active", FALSE) >>,
      << dht22_reading("active", 24, 80), mq135_reading("active", TRUE),
         hcsr04_reading("active", 50), motion_sensor_reading("active", TRUE, 3, 0) >>,
      << dht22_reading("active", 24, 80), mq135_reading("active", TRUE),
         hcsr04_reading_text("active"), motion_sensor_reading("active", TRUE, 3, 0) >>,
      << dht22_reading("inactive", 24, 80), mq135_reading("active", TRUE),
         hcsr04_reading("active", 50), motion_sensor_reading("active", TRUE, 3, 0) >>,
      << dht22_reading("active", 24, 80) >>,
      << [ mq135_reading("active", TRUE) EXCEPT !.zone_id = "Zone-2" ] >>,
      << dht22_reading("inactive", 21, 65), mq135_reading("inactive", FALSE) >> }

RuleConfigTypes ==
    { "Smart_HVAC_Load_Control", "Dehumidifier_Smart_Trigger", "Carbon_Penalty_Avoidance" }

RuleTick == Tick(RuleAdvances, RuleDelays, RuleReadings, MaxRuleTicks)

\* update_alert_config(alert_type, {"enabled": enabled})
SetEnabled ==
    /\ ops < MaxRuleTicks
    /\ \E alert_type \in RuleConfigTypes, enabled \in BOOLEAN :
         LET config_updates == [x \in {"enabled"} |-> enabled]
             r == update_alert_config(alert_configs, alert_type, config_updates)
         IN  /\ alert_configs' = r.alert_configs
             /\ last' = [ op |-> "update_alert_config", alert_type |-> alert_type,
                          config_updates |-> config_updates, raised |-> r.raised ]
    /\ ops' = ops + 1
    /\ UNCHANGED << now, alerts, alert_cooldowns, db_manager, zone_entry_times,
                    daily_usage_stats, co2_exposure_tracking, high_humidity_start_times,
                    allocs, cleared, history, sensorVars, apiVars >>

RuleInit ==
    /\ InitManager
    /\ InitBook
    /\ InitApi
    /\ InitSensors(ConcreteClass, [s \in Sensors |-> TRUE])

RuleNext ==
    \/ RuleTick
    \/ SetEnabled

RuleSpec == RuleInit /\ [][RuleNext]_vars

---------------------------------------------------------------------------
(* Claims about the alert store (StoreSpec)                                *)

\* C2: in every reachable state the alert store holds at most 1000 records, after
\* any sequence of generate_alert, generate_alert_sync and clear_old_alerts calls.
C2_StoreAtMost1000 == Len(alerts) <= 1000

\* C2 case: the store is full and a record has been appended to the full store
C2_Witness == Len(alerts) = 1000 /\ allocs > 1000 /\ last.op \in { "generate_alert", "generate_alert_sync" }

\* C3: after n appends (and no pruning) the store holds exactly the min(n, 1000)
\* most recently created records in append order, so an append to a full store
\* dropped the oldest record and no other; get_all_alerts returns the store
\* oldest first.
C3_MostRecentInAppendOrder ==
    /\ cleared = 0 =>
          /\ Len(alerts) = Min(allocs, 1000)
          /\ \A i \in 1..Len(alerts) : alerts[i].obj = allocs - Len(alerts) + i
    /\ last.op = "get_all_alerts" =>
          /\ Len(last.result) = Len(alerts)
          /\ \A i \in 1..Len(alerts) : last.result[i] = alerts[i]
          /\ \A i \in 1..(Len(alerts) - 1) : last.result[i].obj < last.result[i + 1].obj

\* C3 case: more than 1000 appends, nothing pruned, and the store has been listed
C3_Witness ==
    /\ cleared = 0
    /\ allocs > 1000
    /\ last.op = "get_all_alerts"
    /\ last.result[1].obj = allocs - 999

---------------------------------------------------------------------------
(* Claims about sensor liveness                                            *)

\* C4 (BaseSensorSpec): an Active sensor stays Active while its consecutive-failure
\* count is below 5 and becomes Inactive exactly at the update_reading call at which
\* the count reaches 5; a failed read (None or exception) adds one to the count of an
\* Active sensor and a successful read restarts it from 0, so one dropped sample
\* never deactivates the sensor.
C4_InactiveExactlyAtFifthFailure ==
    /\ \A s \in Sensors : is_active[s] => consecutive_failed_reads[s] < 5
    /\ (last.op = "update_reading" /\ last.before.is_active) =>
          LET s      == last.sensor
              before == last.before.consecutive_failed_reads
              failed == last.data # "data"
          IN  /\ ~is_active[s] <=> (failed /\ before + 1 = 5)
              /\ failed => consecutive_failed_reads[s] = before + 1
              /\ ~failed => consecutive_failed_reads[s] = 0
              /\ (failed /\ before = 0) => is_active[s]

\* C4 case: the fifth consecutive failed read of an Active sensor has just happened
C4_Witness ==
    /\ last.op = "update_reading"
    /\ last.before.is_active
    /\ last.before.consecutive_failed_reads = 4
    /\ last.data # "data"
    /\ ~is_active[last.sensor]
    /\ consecutive_failed_reads[last.sensor] = 5

\* C5 (BaseSensorSpec): whenever update_reading obtains data from read_sensor_data,
\* the sensor is Active with consecutive_failed_reads = 0 right after the call,
\* whatever the state before (Active with failures, or Inactive).
C5_SuccessfulReadActivates ==
    (last.op = "update_reading" /\ last.data = "data") =>
        /\ is_active[last.sensor]
        /\ consecutive_failed_reads[last.sensor] = 0

\* C5 case: a sensor that had been deactivated after five failures obtained data
C5_Witness ==
    /\ last.op = "update_reading"
    /\ last.data = "data"
    /\ ~last.before.is_active
    /\ last.before.consecutive_failed_reads = 5
    /\ is_active[last.sensor]

\* C6 (SensorSpec): a sensor of a concrete class that was marked Inactive after 5
\* consecutive failed reads is Active again after the next update_all_sensors in
\* which its hardware delivers valid data, without force_reconnect.
C6_InactiveSensorRecoversOnNextUpdate ==
    last.op = "update_all_sensors" =>
        \A s \in Sensors :
            ( /\ ~last.before[s].is_active
              /\ last.before[s].consecutive_failed_reads = 5
              /\ last.hw[s] = "data" ) => is_active[s]

---------------------------------------------------------------------------
(* Claims about the cooldown gate (GateSpec)                               *)

\* C7: a call should_generate_alert(type, C) at time now is granted if and only if no
\* emission is recorded for type or now - last_emission[type] >= C*60 (an elapsed
\* time equal to the cooldown is granted); a granted call sets last_emission[type]
\* to now and changes nothing else, a refused call leaves the cooldown state as it was.
C7_GrantedIffCooldownElapsed ==
    last.op = "should_generate_alert" =>
        LET elapsed == last.t - last.before[last.alert_type]
            due == \/ last.alert_type \notin DOMAIN last.before
                   \/ elapsed >= last.cooldown_minutes * 60
        IN  /\ last.granted = due
            /\ last.granted => alert_cooldowns = Put(last.before, last.alert_type, last.t)
            /\ ~last.granted => alert_cooldowns = last.before

\* a call granted with the elapsed time exactly equal to a positive cooldown
C7_Witness ==
    /\ last.op = "should_generate_alert"
    /\ last.alert_type \in DOMAIN last.before
    /\ last.cooldown_minutes > 0
    /\ last.t - last.before[last.alert_type] = last.cooldown_minutes * 60
    /\ last.granted
    /\ alert_cooldowns[last.alert_type] = last.t

\* calls i and i+1 of the history are two successive calls for one alert type, at one
\* instant, both passing the cooldown_minutes configured for the type
SuccessiveCalls(i) ==
    /\ history[i].alert_type = history[i + 1].alert_type
    /\ history[i].t = history[i + 1].t
    /\ history[i].cooldown_minutes = history[i + 1].cooldown_minutes
    /\ history[i].configured
    /\ history[i + 1].configured

\* C8 as stated: of two successive calls for the same alert type with no time elapsed
\* between them, at most one is granted, whatever cooldown_minutes update_alert_config
\* has stored for the type.
C8_AtMostOneGrantAnyCooldown ==
    \A i \in 1 .. (Len(history) - 1) :
        SuccessiveCalls(i) => ~(history[i].granted /\ history[i + 1].granted)

\* C8 as amended: of two successive calls for the same alert type with no time elapsed
\* between them, at most one is granted, provided the configured cooldown_minutes is
\* greater than 0.
C8_AtMostOneGrantPositiveCooldown ==
    \A i \in 1 .. (Len(history) - 1) :
        (SuccessiveCalls(i) /\ history[i].cooldown_minutes > 0)
            => ~(history[i].granted /\ history[i + 1].granted)

\* two successive calls at one instant with a positive configured cooldown that
\* update_alert_config stored: the first granted, the second refused
C8_Witness ==
    \E i \in 1 .. (Len(history) - 1) :
        /\ SuccessiveCalls(i)
        /\ history[i].cooldown_minutes > 0
        /\ history[i].cooldown_minutes
               # ALERT_CONFIGURATIONS[history[i].alert_type].cooldown_minutes
        /\ history[i].granted
        /\ ~history[i + 1].granted

---------------------------------------------------------------------------
(* Claims about evaluation ticks (TickSpec)                                *)

\* the creation time of an alert record
created_at(alert) == fromisoformat(alert.Date)

\* C1: any two alert records of one alert type have creation timestamps (Date) at
\* least cooldown_minutes of that type apart, after any sequence of ticks during which
\* the rule's cooldown_minutes does not change, whatever the zones of the records.
C1_SameTypeDatesCooldownApart ==
    \A i \in 1 .. Len(alerts) : \A j \in (i + 1) .. Len(alerts) :
        alerts[i].AlertType = alerts[j].AlertType =>
            created_at(alerts[j]) - created_at(alerts[i])
                >= Get(Get(alert_configs, alerts[i].AlertType, EmptyDict),
                       "cooldown_minutes", 0) * 60

\* the predicate of check_hvac_load_control holds of the readings of a tick
HvacPredicate(sensor_readings) ==
    LET readings == build_readings_dict(EmptyDict, sensor_readings)
    IN  /\ "temperature_humidity" \in DOMAIN readings
        /\ "air_quality" \in DOMAIN readings
        /\ readings["temperature_humidity"].temperature_celsius # 0
        /\ readings["temperature_humidity"].temperature_celsius
               < alert_configs["Smart_HVAC_Load_Control"].temp_threshold
        /\ readings["temperature_humidity"].humidity_percent
               > alert_configs["Smart_HVAC_Load_Control"].humidity_threshold

HvacEmitted(i) == "Smart_HVAC_Load_Control" \in history[i].emitted

\* the end of the cooldown that the alert of the first tick starts
HvacCooldownEnd ==
    history[1].t + alert_configs["Smart_HVAC_Load_Control"].cooldown_minutes * 60

\* C9: with Smart_HVAC_Load_Control enabled, its cooldown of 30 minutes and readings
\* that satisfy its predicate at every tick, the first tick (at T0) emits the alert,
\* no tick before T0 + 30 min emits it, and the first tick at or after T0 + 30 min
\* emits it again.
C9_HvacAlertOncePerCooldown ==
    (/\ Len(history) >= 1
     /\ alert_configs["Smart_HVAC_Load_Control"].enabled
     /\ alert_configs["Smart_HVAC_Load_Control"].cooldown_minutes = 30
     /\ \A i \in 1 .. Len(history) : HvacPredicate(history[i].sensor_readings))
    => /\ HvacEmitted(1)
       /\ \A i \in 2 .. Len(history) :
            /\ history[i].t < HvacCooldownEnd => ~HvacEmitted(i)
            /\ (/\ history[i].t >= HvacCooldownEnd
                /\ \A j \in 2 .. (i - 1) : history[j].t < HvacCooldownEnd)
               => HvacEmitted(i)

\* three ticks with the predicate true: T0, one inside the cooldown without an alert,
\* one exactly at T0 + 30 min with the second alert
C9_Witness ==
    /\ Len(history) = 3
    /\ \A i \in 1 .. 3 : HvacPredicate(history[i].sensor_readings)
    /\ HvacEmitted(1)
    /\ history[2].t < HvacCooldownEnd
    /\ ~HvacEmitted(2)
    /\ history[3].t = HvacCooldownEnd
    /\ HvacEmitted(3)

\* C10: the event list People_Density_Alert stores for a zone, whose length is the
\* count it computes, holds no event older than the 10-minute window that ends at
\* the time of the evaluation (the time of the newest event of the list).
C10_NoEventOlderThanWindow ==
    \A zone_id \in DOMAIN zone_entry_times :
        LET entries == zone_entry_times[zone_id]
            current_time == entries[Len(entries)]
        IN  /\ Len(entries) >= 1
            /\ \A i \in 1 .. Len(entries) :
                 entries[i] >= current_time - density_window_minutes * 60

\* a tick that recorded an event for a zone and dropped an older one from its list
C10_Witness ==
    /\ last.op = "check_all_alerts"
    /\ \E zone_id \in DOMAIN zone_entry_times :
         /\ zone_id \in DOMAIN last.entries_before
         /\ zone_entry_times[zone_id][Len(zone_entry_times[zone_id])] >= last.t
         /\ \E i \in 1 .. Len(last.entries_before[zone_id]) :
              /\ last.entries_before[zone_id][i] < last.t - density_window_minutes * 60
              /\ \A k \in 1 .. Len(zone_entry_times[zone_id]) :
                   zone_entry_times[zone_id][k] # last.entries_before[zone_id][i]

---------------------------------------------------------------------------
(* Claims about the humidity timer (HumiditySpec)                          *)

\* the rule calls of a tick, by their position in last.steps: entry k is the state
\* before the k-th rule, entry k + 1 the state after it
DehumidifierRule == 5

ToiletRule == 9

\* C16: the evaluation of Toilet_Occupancy_Cleaning never sets or clears the
\* high-humidity start time that Dehumidifier_Smart_Trigger uses for a zone: the
\* start times are the same before and after the toilet rule's call, in every tick.
C16_ToiletRuleLeavesHumidityTimer ==
    last.op = "check_all_alerts" =>
        last.steps[ToiletRule + 1].high_humidity_start_times
            = last.steps[ToiletRule].high_humidity_start_times

\* the humidity a tick observes, and whether it is above the dehumidifier threshold
ObservedHumidity(i) ==
    build_readings_dict(EmptyDict, history[i].sensor_readings)
        ["temperature_humidity"].humidity_percent

High(i) == ObservedHumidity(i) > alert_configs["Dehumidifier_Smart_Trigger"].humidity_threshold

\* the tick at which the high humidity observed at tick i began
RiseOf(i) ==
    CHOOSE r \in 1 .. i :
        /\ \A k \in r .. i : High(k)
        /\ r = 1 \/ ~High(r - 1)

DehumidifierEmitted(i) == "Dehumidifier_Smart_Trigger" \in history[i].emitted

\* C11: after a tick that observes the humidity condition false, the next tick that
\* observes it true records a fresh start equal to its own time, and that start is
\* the one kept (and measured from) for as long as the condition stays true.
C11_FreshStartAfterFalseObservation ==
    \A i \in 2 .. Len(history) :
        (High(i) /\ RiseOf(i) > 1) =>
            /\ "Zone-1" \in DOMAIN history[i].high_humidity_start_times
            /\ history[i].high_humidity_start_times["Zone-1"]
                   = history[RiseOf(i)].dehumidifier_time

\* C12: with humidity above the threshold at every tick since it rose, a duration
\* threshold of 15 minutes and the cooldown of 20 minutes, no Dehumidifier alert is
\* emitted until 15 minutes have passed since the (latest) rise, the first tick after
\* that emits the alert, and two alerts are at least the cooldown apart, so that a
\* span of 16 minutes holds exactly one.
C12_DehumidifierFiresOnceAfterDuration ==
    LET config == alert_configs["Dehumidifier_Smart_Trigger"]
        elapsed(i) == history[i].dehumidifier_time - history[RiseOf(i)].dehumidifier_time
    IN  \A i \in 1 .. Len(history) :
            High(i) =>
              /\ DehumidifierEmitted(i) => elapsed(i) > config.duration_minutes * 60
              /\ (/\ elapsed(i) > config.duration_minutes * 60
                  /\ \A j \in 1 .. (i - 1) : ~DehumidifierEmitted(j))
                 => DehumidifierEmitted(i)
              /\ \A j \in 1 .. (i - 1) :
                   (DehumidifierEmitted(j) /\ DehumidifierEmitted(i))
                       => history[i].dehumidifier_time - history[j].dehumidifier_time
                              >= config.cooldown_minutes * 60

---------------------------------------------------------------------------
(* Claims about the sliding-window counter (DensitySpec)                   *)

\* tick i records a proximity event: motion within 100 cm of the ultrasonic sensor
ProximityEvent(i) ==
    LET readings == build_readings_dict(EmptyDict, history[i].sensor_readings)
    IN  /\ "ultrasonic" \in DOMAIN readings
        /\ "motion_sensor" \in DOMAIN readings
        /\ readings["motion_sensor"].motion_detected
        /\ readings["ultrasonic"].distance_cm < 100

\* the number of proximity events up to tick i inside the 10-minute window of tick i
InWindowCount(i) ==
    Cardinality({ j \in 1 .. i :
                    /\ ProximityEvent(j)
                    /\ history[j].density_time
                           > history[i].density_time - density_window_minutes * 60 })

DensityEmitted(i) == "People_Density_Alert" \in history[i].emitted

---------------------------------------------------------------------------
(* Claims about one rule pass (RuleSpec)                                   *)

\* the snapshot of the latest tick, and its states before and after the pass
Snapshot == build_readings_dict(EmptyDict, last.sensor_readings)

Before == last.steps[1]

After == last.steps[11]

\* the exposure recorded for a zone (a zone without an entry has none)
Exposure(tr, zone_id) == Get(tr.co2_exposure_tracking, zone_id, 0)

\* the tick's air_quality reading reports gas for the zone
GasObserved(zone_id) ==
    /\ "air_quality" \in DOMAIN Snapshot
    /\ Snapshot["air_quality"].zone_id = zone_id
    /\ Snapshot["air_quality"].gas_detected

\* C14: over a tick co2_exposure_tracking[zone] never decreases, and it increases
\* only if the tick's air_quality reading for that zone has gas_detected true; on
\* every other tick it is unchanged.
C14_ExposureMonotonic ==
    last.op = "check_all_alerts" =>
        \A zone_id \in Zones :
            /\ Exposure(After, zone_id) >= Exposure(Before, zone_id)
            /\ Exposure(After, zone_id) > Exposure(Before, zone_id) => GasObserved(zone_id)
            /\ ~GasObserved(zone_id) => Exposure(After, zone_id) = Exposure(Before, zone_id)

\* a tick that added to an exposure already recorded for Zone-1, while another
\* zone's exposure stayed as it was
C14_Witness ==
    /\ last.op = "check_all_alerts"
    /\ Exposure(Before, "Zone-1") >= 1
    /\ Exposure(After, "Zone-1") = Exposure(Before, "Zone-1") + 1
    /\ Exposure(Before, "Zone-2") >= 1
    /\ Exposure(After, "Zone-2") = Exposure(Before, "Zone-2")

\* the ventilation rule is due in the latest tick: enabled, foul air with motion, and
\* no emission of its type recorded
VentilationDue ==
    /\ last.alert_configs["Smart_Ventilation_Escalation"].enabled
    /\ "air_quality" \in DOMAIN Snapshot
    /\ "motion_sensor" \in DOMAIN Snapshot
    /\ Snapshot["air_quality"].gas_detected
    /\ Snapshot["motion_sensor"].motion_detected
    /\ Snapshot["motion_sensor"].motion_count > 0
    /\ "Smart_Ventilation_Escalation" \notin DOMAIN Before.alert_cooldowns

\* C15: when the evaluation of one rule raises an exception during a tick, the rules
\* later in the order are still evaluated in that tick: the carbon rule adds the
\* tick to the exposure of a zone with gas, and the ventilation rule emits its alert
\* when it is due.
C15_LaterRulesRunAfterException ==
    (last.op = "check_all_alerts" /\ After.raised) =>
        /\ \A zone_id \in Zones :
             (GasObserved(zone_id) /\ last.alert_configs["Carbon_Penalty_Avoidance"].enabled)
                 => Exposure(After, zone_id) = Exposure(Before, zone_id) + 1
        /\ VentilationDue => "Smart_Ventilation_Escalation" \in After.emitted

\* the sensor types each rule requires, its alert type and the trackers it keeps
Required(k) ==
    CASE k = 1 -> { "temperature_humidity", "air_quality" }
      [] k = 2 -> { "air_quality", "motion_sensor", "temperature_humidity" }
      [] k = 3 -> { "ultrasonic", "motion_sensor" }
      [] k = 4 -> { "motion_sensor" }
      [] k = 5 -> { "temperature_humidity" }
      [] k = 6 -> { "air_quality", "motion_sensor" }
      [] k = 7 -> { "temperature_humidity", "air_quality" }
      [] k = 8 -> { "temperature_humidity", "air_quality" }
      [] k = 9 -> { "ultrasonic", "temperature_humidity", "motion_sensor" }
      [] k = 10 -> { "air_quality" }

RuleType(k) ==
    CASE k = 1 -> "Smart_HVAC_Load_Control"
      [] k = 2 -> "Predictive_Sick_Building_Alert"
      [] k = 3 -> "People_Density_Alert"
      [] k = 4 -> "Zone_Level_Attendance_Accuracy"
      [] k = 5 -> "Dehumidifier_Smart_Trigger"
      [] k = 6 -> "Smart_Ventilation_Escalation"
      [] k = 7 -> "Real_Time_ESG_Score"
      [] k = 8 -> "VIP_Room_Air_Quality"
      [] k = 9 -> "Toilet_Occupancy_Cleaning"
      [] k = 10 -> "Carbon_Penalty_Avoidance"

RuleTrackers(k) ==
    CASE k = 3 -> { "zone_entry_times" }
      [] k = 5 -> { "high_humidity_start_times" }
      [] k = 9 -> { "daily_usage_stats", "high_humidity_start_times" }
      [] k = 10 -> { "co2_exposure_tracking" }
      [] OTHER -> { }

Absent(k) == \E sensor_type \in Required(k) : sensor_type \notin DOMAIN Snapshot

\* C19: when a sensor type a rule requires is absent from the tick's snapshot, the
\* rule's call raises nothing and changes nothing, the tick emits no alert of the
\* rule's type and leaves its cooldown entry and its trackers as they were, and a
\* rule whose types are present is still evaluated (the carbon rule counts the tick).
C19_AbsentTypeSkipsRule ==
    last.op = "check_all_alerts" =>
        /\ \A k \in 1 .. 10 :
             Absent(k) =>
               /\ last.steps[k + 1] = last.steps[k]
               /\ RuleType(k) \notin After.emitted
               /\ Get(After.alert_cooldowns, RuleType(k), NoTime)
                      = Get(Before.alert_cooldowns, RuleType(k), NoTime)
               /\ \A f \in RuleTrackers(k) : After[f] = Before[f]
        /\ \A zone_id \in Zones :
             (/\ GasObserved(zone_id)
              /\ last.alert_configs["Carbon_Penalty_Avoidance"].enabled
              /\ ~After.raised)
             => Exposure(After, zone_id) = Exposure(Before, zone_id) + 1

\* C20: in a tick during which a rule's configuration has enabled = false, no alert
\* of the rule's alert type is appended and the type's cooldown entry is not
\* modified, whatever the readings; once enabled is true again the rule is evaluated:
\* the HVAC rule emits its alert when its predicate holds and no cooldown is running.
C20_DisabledRuleEmitsNothing ==
    last.op = "check_all_alerts" =>
        /\ \A alert_type \in DOMAIN last.alert_configs :
             ~last.alert_configs[alert_type].enabled =>
               /\ alert_type \notin After.emitted
               /\ Get(After.alert_cooldowns, alert_type, NoTime)
                      = Get(Before.alert_cooldowns, alert_type, NoTime)
        /\ (/\ last.alert_configs["Smart_HVAC_Load_Control"].enabled
            /\ HvacPredicate(last.sensor_readings)
            /\ "Smart_HVAC_Load_Control" \notin DOMAIN Before.alert_cooldowns)
           => "Smart_HVAC_Load_Control" \in After.emitted

\* the HVAC predicate held in two ticks: the first, with the rule disabled, emitted
\* nothing and left no cooldown entry; the second, after the rule was enabled again,
\* emitted the alert
C20_Witness ==
    /\ last.op = "check_all_alerts"
    /\ Len(history) = 2
    /\ HvacPredicate(history[1].sensor_readings)
    /\ HvacPredicate(history[2].sensor_readings)
    /\ "Smart_HVAC_Load_Control" \notin history[1].emitted
    /\ "Smart_HVAC_Load_Control" \notin DOMAIN Before.alert_cooldowns
    /\ last.alert_configs["Smart_HVAC_Load_Control"].enabled
    /\ "Smart_HVAC_Load_Control" \in After.emitted

---------------------------------------------------------------------------
(* The API handlers that read the alert store (main.py)                    *)

\* what db_manager.get_alert_asset_id returns for each alert type during one call
Resolvers == [ StoreTypes -> ResolverResults ]

\* get_recent_alerts(limit) takes list(self.alerts)[-limit:]; the handlers pass 50
DashboardLimit == 50

\* the assetId the handlers of /api/alerts and /api/dashboard write into a record
handler_asset_id(alert, db_available, resolved) ==
    IF db_available
    THEN IF resolved = "raise" THEN NoAssetId ELSE resolved
    ELSE alert.assetId

\* get_alerts: list(self.alerts) copies the deque but not the dicts in it, so the
\* handler's assignments to alert['assetId'] are made on the records of the store
get_alerts(store, db_available, resolve) ==
    [ i \in 1 .. Len(store) |->
        [ store[i] EXCEPT !.assetId =
            handler_asset_id(store[i], db_available, resolve[store[i].AlertType]) ] ]

\* get_dashboard: the same assignments on the records get_recent_alerts returned
get_dashboard(store, db_available, resolve) ==
    [ i \in 1 .. Len(store) |->
        IF i > Len(store) - DashboardLimit /\ db_available
        THEN [ store[i] EXCEPT !.assetId =
                 handler_asset_id(store[i], db_available, resolve[store[i].AlertType]) ]
        ELSE store[i] ]

\* update_alert_asset_ids: the store after the scan
update_alert_asset_ids(store, has_db, resolve) ==
    IF ~has_db THEN store
    ELSE [ i \in 1 .. Len(store) |->
             LET asset_id == resolve[store[i].AlertType]
             IN  IF store[i].assetId = NoAssetId /\ asset_id # "raise" /\ asset_id # NoAssetId
                 THEN [ store[i] EXCEPT !.assetId = asset_id ]
                 ELSE store[i] ]

GetAlerts ==
    /\ StoreOpAllowed
    /\ \E db_available \in BOOLEAN, resolve \in Resolvers :
          alerts' = get_alerts(alerts, db_available, resolve)
    /\ last' = [ op |-> "get_alerts", store_before |-> alerts ]
    /\ ops' = ops + 1
    /\ UNCHANGED << now, alert_cooldowns, alert_configs, db_manager, zone_entry_times,
                    daily_usage_stats, co2_exposure_tracking, high_humidity_start_times,
                    allocs, cleared, history, sensorVars, apiVars >>

GetDashboard ==
    /\ StoreOpAllowed
    /\ \E db_available \in BOOLEAN, resolve \in Resolvers :
          alerts' = get_dashboard(alerts, db_available, resolve)
    /\ last' = [ op |-> "get_dashboard", store_before |-> alerts ]
    /\ ops' = ops + 1
    /\ UNCHANGED << now, alert_cooldowns, alert_configs, db_manager, zone_entry_times,
                    daily_usage_stats, co2_exposure_tracking, high_humidity_start_times,
                    allocs, cleared, history, sensorVars, apiVars >>

UpdateAlertAssetIds ==
    /\ StoreOpAllowed
    /\ \E resolve \in Resolvers :
          alerts' = update_alert_asset_ids(alerts, db_manager, resolve)
    /\ last' = [ op |-> "update_alert_asset_ids", store_before |-> alerts ]
    /\ ops' = ops + 1
    /\ UNCHANGED << now, alert_cooldowns, alert_configs, db_manager, zone_entry_times,
                    daily_usage_stats, co2_exposure_tracking, high_humidity_start_times,
                    allocs, cleared, history, sensorVars, apiVars >>

ApiInit == StoreInit

ApiNext ==
    \/ GenerateAlertSync
    \/ GenerateAlert
    \/ SetDbManager
    \/ GetAlerts
    \/ GetDashboard
    \/ UpdateAlertAssetIds

ApiSpec == ApiInit /\ [][ApiNext]_vars

\* the operations that read the store on behalf of the API
ApiReads == { "get_alerts", "get_dashboard", "update_alert_asset_ids" }

\* a record was changed only by a back-fill of its assetId
OnlyBackfilled(old, new) ==
    /\ [ new EXCEPT !.assetId = old.assetId ] = old
    /\ new.assetId # old.assetId => (old.assetId = NoAssetId /\ new.assetId # NoAssetId)

\* C18: a record in the store keeps every field while it stays there, except assetId,
\* which changes only from 'no-asset-id-assigned' to a resolved id; across
\* update_alert_asset_ids and the handlers reading through get_all_alerts /
\* get_recent_alerts.
C18_RecordsImmutableExceptBackfill ==
    last.op \in ApiReads =>
        \A i \in 1 .. Len(last.store_before), j \in 1 .. Len(alerts) :
            last.store_before[i].obj = alerts[j].obj
                => OnlyBackfilled(last.store_before[i], alerts[j])

---------------------------------------------------------------------------
(* Reads of the store by the API thread while the background thread ticks  *)
(* (main.py starts background_sensor_loop in a Thread; the handlers run on  *)
(* the event loop's thread)                                                *)

MaxConcTicks == 2

ConcAdvances == { 1, 3600 }

ConcDelays == { 0 }

\* a tick that finds the HVAC, sick-building and ventilation rules due, and a quiet one
ConcReadings ==
    { << dht22_reading("active", 24, 80), mq135_reading("active", TRUE),
         motion_sensor_reading("active", TRUE, 3, 0) >>,
      << dht22_reading("active", 21, 50) >> }

\* the summary get_alerts_summary builds from the records its loop visited
alert_summary(visited, cfgs) ==
    [ alert_type \in { visited[i].AlertType : i \in 1 .. Len(visited) } |->
        LET of_type == { i \in 1 .. Len(visited) : visited[i].AlertType = alert_type }
            first   == CHOOSE i \in of_type : \A k \in of_type : i <= k
            latest  == CHOOSE i \in of_type :
                          /\ \A k \in of_type :
                                fromisoformat(visited[k].Date) <= fromisoformat(visited[i].Date)
                          /\ \A k \in of_type :
                                fromisoformat(visited[k].Date) = fromisoformat(visited[i].Date)
                                    => i <= k
        IN  [ count          |-> Cardinality(of_type),
              last_triggered |-> visited[latest].Date,
              priority       |-> visited[first].Priority,
              enabled        |-> Get(Get(cfgs, alert_type, EmptyDict), "enabled", TRUE),
              asset_id       |-> visited[latest].assetId ] ]

\* what get_alerts_summary returns (without its timestamp)
summary_result(total_alerts, visited, cfgs) ==
    [ total_alerts |-> total_alerts, alert_types |-> alert_summary(visited, cfgs) ]

\* get_alerts_summary run on a store that does not change meanwhile
get_alerts_summary(store, cfgs) == summary_result(Len(store), store, cfgs)

\* sorted(list, key=Date, reverse=True): stable, so records of equal Date keep their order
RECURSIVE sorted_by_date_reverse(_)
sorted_by_date_reverse(list) ==
    IF list = << >> THEN << >>
    ELSE LET i == CHOOSE i \in 1 .. Len(list) :
                     /\ \A k \in 1 .. Len(list) :
                           fromisoformat(list[k].Date) <= fromisoformat(list[i].Date)
                     /\ \A k \in 1 .. Len(list) :
                           fromisoformat(list[k].Date) = fromisoformat(list[i].Date) => i <= k
         IN  << list[i] >> \o sorted_by_date_reverse(
                 SubSeq(list, 1, i - 1) \o SubSeq(list, i + 1, Len(list)))

\* list[-limit:] for limit >= 0: the slice from -0 is the whole list
last_slice(list, limit) == IF limit = 0 THEN list ELSE LastN(list, limit)

\* get_recent_alerts(limit)
get_recent_alerts(store, limit) == sorted_by_date_reverse(last_slice(store, limit))

\* get_all_alerts and get_recent_alerts copy the deque with list(self.alerts), one
\* call into the interpreter during which no other thread runs
CopyRead ==
    /\ reader.pc = "idle"
    /\ \E op \in { "get_all_alerts", "get_recent_alerts" } :
          reader' = [ pc |-> "done", op |-> op, begin |-> alerts, end |-> alerts,
                      result |-> IF op = "get_all_alerts" THEN get_all_alerts(alerts)
                                 ELSE get_recent_alerts(alerts, DashboardLimit) ]
    /\ UNCHANGED << now, managerVars, ops, last, history, sensorVars >>

\* get_alerts_summary, line 512: total_alerts = len(self.alerts)
SummaryLen ==
    /\ reader.pc = "idle"
    /\ reader' = [ pc |-> "len_read", op |-> "get_alerts_summary", begin |-> alerts,
                   total_alerts |-> Len(alerts) ]
    /\ UNCHANGED << now, managerVars, ops, last, history, sensorVars >>

\* line 514: `for alert in self.alerts` creates an iterator on the live deque, which
\* remembers the deque's mutation count (every append changes it)
SummaryIter ==
    /\ reader.pc = "len_read"
    /\ reader' = [ pc |-> "iterating", op |-> "get_alerts_summary", begin |-> reader.begin,
                   total_alerts |-> reader.total_alerts, state |-> allocs,
                   visited |-> << >> ]
    /\ UNCHANGED << now, managerVars, ops, last, history, sensorVars >>

\* one turn of the loop of lines 514-528: the iterator raises RuntimeError (deque
\* mutated during iteration) when the deque changed since it was created, ends the
\* loop after the last record, and hands out the next record otherwise
SummaryNext ==
    /\ reader.pc = "iterating"
    /\ reader.op = "get_alerts_summary"
    /\ reader' =
          IF allocs # reader.state
          THEN [ pc |-> "error", op |-> reader.op, begin |-> reader.begin, end |-> alerts ]
          ELSE IF Len(reader.visited) = Len(alerts)
          THEN [ pc |-> "done", op |-> reader.op, begin |-> reader.begin, end |-> alerts,
                 result |-> summary_result(reader.total_alerts, reader.visited,
                                           alert_configs) ]
          ELSE [ reader EXCEPT !.visited = Append(@, alerts[Len(@) + 1]) ]
    /\ UNCHANGED << now, managerVars, ops, last, history, sensorVars >>

\* update_alert_asset_ids, lines 452-456: returns at once without a db_manager,
\* otherwise starts its scan of the live deque
ScanIter ==
    /\ reader.pc = "idle"
    /\ reader' =
          IF ~db_manager
          THEN [ pc |-> "done", op |-> "update_alert_asset_ids", begin |-> alerts,
                 end |-> alerts, result |-> "None" ]
          ELSE [ pc |-> "iterating", op |-> "update_alert_asset_ids", begin |-> alerts,
                 state |-> allocs, visited |-> << >>, updated_count |-> 0 ]
    /\ UNCHANGED << now, managerVars, ops, last, history, sensorVars >>

\* one turn of the scan's loop, lines 456-464, with the await of the resolver in it
ScanNext ==
    /\ reader.pc = "iterating"
    /\ reader.op = "update_alert_asset_ids"
    /\ \E asset_id \in ResolverResults :
          LET i == Len(reader.visited) + 1
              updates == /\ allocs = reader.state
                         /\ i <= Len(alerts)
                         /\ alerts[i].assetId = NoAssetId
                         /\ asset_id \notin { "raise", NoAssetId }
          IN  /\ reader' =
                    IF allocs # reader.state
                    THEN [ pc |-> "error", op |-> reader.op, begin |-> reader.begin,
                           end |-> alerts ]
                    ELSE IF i > Len(alerts)
                    THEN [ pc |-> "done", op |-> reader.op, begin |-> reader.begin,
                           end |-> alerts, result |-> reader.updated_count ]
                    ELSE [ reader EXCEPT !.visited = Append(@, alerts[i]),
                                         !.updated_count = IF updates THEN @ + 1 ELSE @ ]
              /\ alerts' = IF updates THEN [ alerts EXCEPT ![i].assetId = asset_id ]
                           ELSE alerts
    /\ UNCHANGED << now, alert_cooldowns, alert_configs, db_manager, zone_entry_times,
                    daily_usage_stats, co2_exposure_tracking, high_humidity_start_times,
                    allocs, cleared, ops, last, history, sensorVars >>

\* the handler returns (a response, or the error response of its except clause)
ReadReturn ==
    /\ reader.pc \in { "done", "error" }
    /\ reader' = [ pc |-> "idle" ]
    /\ UNCHANGED << now, managerVars, ops, last, history, sensorVars >>

\* a tick of the background thread; the thread does not wait for a read to end
ConcTick ==
    /\ Tick(ConcAdvances, ConcDelays, ConcReadings, MaxConcTicks)

ConcInit == StoreInit

ConcNext ==
    \/ ConcTick
    \/ SetDbManager
    \/ CopyRead
    \/ SummaryLen
    \/ SummaryIter
    \/ SummaryNext
    \/ ScanIter
    \/ ScanNext
    \/ ReadReturn

ConcSpec == ConcInit /\ [][ConcNext]_vars

\* the contents the store had at the instants of a finished read: every append
\* between its begin and its end is one instant
Instants == { SubSeq(reader.end, 1, n) : n \in Len(reader.begin) .. Len(reader.end) }

\* C17: a read of the store by the API thread while the background thread appends
\* completes without error, and what it returns equals the store at one instant
\* between its begin and its end.
C17_ReadsSeeOneInstant ==
    /\ reader.pc # "error"
    /\ reader.pc = "done" =>
         CASE reader.op = "get_all_alerts" ->
                 \E store \in Instants : reader.result = get_all_alerts(store)
           [] reader.op = "get_recent_alerts" ->
                 \E store \in Instants :
                     reader.result = get_recent_alerts(store, DashboardLimit)
           [] reader.op = "get_alerts_summary" ->
                 \E store \in Instants :
                     reader.result = get_alerts_summary(store, alert_configs)
           [] OTHER -> TRUE

---------------------------------------------------------------------------
(* ConfigSpec: configuration updates between evaluation ticks              *)

MaxConfigOps == 3

ConfigAdvances == { 1 }

ConfigDelays == { 0, 1 }

\* humid foul air with people close by: several rules emit and set their trackers;
\* cool humid air: the HVAC rule emits
ConfigReadings ==
    { << dht22_reading("active", 24, 80), mq135_reading("active", TRUE),
         hcsr04_reading("active", 50), motion_sensor_reading("active", TRUE, 3, 0) >>,
      << dht22_reading("active", 21, 65), mq135_reading("active", FALSE) >> }

\* Toilet_Occupancy_Cleaning is read by a rule but is no key of the table
PatchedTypes ==
    { "Smart_HVAC_Load_Control", "Dehumidifier_Smart_Trigger", "Unknown_Alert",
      "Toilet_Occupancy_Cleaning" }

\* bodies of the update: one key, two keys, a key no configuration has, no key
ConfigPatches ==
    { [x \in {"cooldown_minutes"} |-> 0],
      [x \in {"enabled"} |-> FALSE],
      [x \in {"enabled", "priority"} |-> IF x = "enabled" THEN FALSE ELSE "Low"],
      [x \in {"custom_key"} |-> 1],
      EmptyDict }

\* everything the manager holds
ManagerState ==
    [ alert_configs |-> alert_configs, alert_cooldowns |-> alert_cooldowns,
      alerts |-> alerts, zone_entry_times |-> zone_entry_times,
      daily_usage_stats |-> daily_usage_stats,
      co2_exposure_tracking |-> co2_exposure_tracking,
      high_humidity_start_times |-> high_humidity_start_times ]

ConfigTick == Tick(ConfigAdvances, ConfigDelays, ConfigReadings, MaxConfigOps)

PatchAlertConfig ==
    /\ ops < MaxConfigOps
    /\ \E alert_type \in PatchedTypes, config_updates \in ConfigPatches :
         LET r == update_alert_config(alert_configs, alert_type, config_updates)
         IN  /\ alert_configs' = r.alert_configs
             /\ last' = [ op |-> "update_alert_config", alert_type |-> alert_type,
                          config_updates |-> config_updates, result |-> r,
                          before |-> ManagerState ]
    /\ ops' = ops + 1
    /\ UNCHANGED << now, alerts, alert_cooldowns, db_manager, zone_entry_times,
                    daily_usage_stats, co2_exposure_tracking, high_humidity_start_times,
                    allocs, cleared, history, sensorVars, apiVars >>

ConfigInit == TickInit

ConfigNext ==
    \/ ConfigTick
    \/ PatchAlertConfig

ConfigSpec == ConfigInit /\ [][ConfigNext]_vars

\* C21: update_alert_config with an alert type that is no key of the configuration
\* table raises ValueError and changes nothing the manager holds.
C21_UnknownTypeRaisesAndMutatesNothing ==
    (last.op = "update_alert_config" /\ "before" \in DOMAIN last
        /\ last.alert_type \notin DOMAIN last.before.alert_configs)
    => /\ last.result.raised
       /\ ManagerState = last.before

\* an update of an unknown type after a tick that filled the store, the cooldowns
\* and the trackers
C21_Witness ==
    /\ last.op = "update_alert_config"
    /\ "before" \in DOMAIN last
    /\ last.alert_type = "Unknown_Alert"
    /\ last.result.raised
    /\ alerts # << >>
    /\ NonEmpty(alert_cooldowns)
    /\ NonEmpty(co2_exposure_tracking)

\* C22: update_alert_config(T, patch) for a known T sets the keys of patch in T's
\* config and nothing else: T's other keys, the other types' configs, the cooldowns,
\* the trackers and the store are as before, and the returned config is T's config
\* after the merge.
C22_KnownTypeMergesPatchOnly ==
    (last.op = "update_alert_config" /\ "before" \in DOMAIN last
        /\ last.alert_type \in DOMAIN last.before.alert_configs)
    => LET T      == last.alert_type
           patch  == last.config_updates
           old    == last.before.alert_configs
       IN  /\ ~last.result.raised
           /\ DOMAIN alert_configs = DOMAIN old
           /\ \A other \in DOMAIN old \ { T } : alert_configs[other] = old[other]
           /\ DOMAIN alert_configs[T] = DOMAIN old[T] \cup DOMAIN patch
           /\ \A key \in DOMAIN patch : alert_configs[T][key] = patch[key]
           /\ \A key \in DOMAIN old[T] \ DOMAIN patch : alert_configs[T][key] = old[T][key]
           /\ [ ManagerState EXCEPT !.alert_configs = old ] = last.before
           /\ last.result.updated_config = alert_configs[T]

\* a two-key patch of a known type after a tick that filled the store: the patched
\* keys changed and the cooldown of the same config did not
C22_Witness ==
    /\ last.op = "update_alert_config"
    /\ "before" \in DOMAIN last
    /\ last.alert_type = "Smart_HVAC_Load_Control"
    /\ DOMAIN last.config_updates = { "enabled", "priority" }
    /\ alert_configs[last.alert_type].priority = "Low"
    /\ last.before.alert_configs[last.alert_type].priority = "Medium"
    /\ alert_configs[last.alert_type].cooldown_minutes = 30
    /\ alerts # << >>

---------------------------------------------------------------------------
(* EmitSpec: the two ways a record enters the store, the rules of a tick   *)
(* and the public generate_alert / generate_alert_sync                     *)

MaxEmitOps == 3

EmitTick == Tick(TickAdvances, Delays, TickReadings, MaxEmitOps)

EmitInit == TickInit

EmitNext ==
    \/ EmitTick
    \/ GenerateAlertSync
    \/ GenerateAlert
    \/ SetDbManager

EmitSpec == EmitInit /\ [][EmitNext]_vars

\* the clock value in a record's id
id_time(alert) == alert.id[3]

\* the newest record of its type
NewestOfType(i) ==
    \A j \in (i + 1) .. Len(alerts) : alerts[j].AlertType # alerts[i].AlertType

\* C23: a record is appended only after a cooldown check for its type was granted
\* immediately before (its type has a cooldown stamp, and the newest record of a type
\* was created right after that stamp was taken), and every check granted in a tick
\* is followed by exactly one append of that type.
C23_AppendOnlyAfterGrantedCheck ==
    /\ \A i \in 1 .. Len(alerts) :
          /\ alerts[i].AlertType \in DOMAIN alert_cooldowns
          /\ NewestOfType(i) =>
                \E d \in Delays :
                    id_time(alerts[i]) = alert_cooldowns[alerts[i].AlertType] + d
    /\ last.op = "check_all_alerts" =>
          /\ \A alert_type \in DOMAIN last.steps[11].alert_cooldowns :
                (Get(last.steps[1].alert_cooldowns, alert_type, NoTime)
                     # last.steps[11].alert_cooldowns[alert_type])
                <=> alert_type \in last.steps[11].emitted
          /\ last.appended = Cardinality(last.steps[11].emitted)

---------------------------------------------------------------------------
(* RecentSpec: get_recent_alerts on stores built by direct appends         *)

RecentLimits == { 0, 1, 2, DashboardLimit }

GetRecentAlerts ==
    /\ StoreOpAllowed
    /\ \E limit \in RecentLimits :
          last' = [ op |-> "get_recent_alerts", limit |-> limit,
                    result |-> get_recent_alerts(alerts, limit) ]
    /\ ops' = ops + 1
    /\ UNCHANGED << now, managerVars, history, sensorVars, apiVars >>

RecentInit == StoreInit

RecentNext ==
    \/ GenerateAlertSync
    \/ GenerateAlert
    \/ SetDbManager
    \/ StoreTimePasses
    \/ GetRecentAlerts

RecentSpec == RecentInit /\ [][RecentNext]_vars

\* a list from its last item to its first
reversed(list) == [ i \in 1 .. Len(list) |-> list[Len(list) + 1 - i] ]

\* C25: get_recent_alerts(limit) returns the min(limit, n) most recently appended
\* records of the store, most recently appended first, for every limit >= 0 and
\* every store content.
C25_RecentIsNewestFirst ==
    last.op = "get_recent_alerts" =>
        last.result = reversed(LastN(alerts, last.limit))

---------------------------------------------------------------------------
(* SnapshotSpec: ticks whose input list holds several readings of one type *)

MaxSnapshotTicks == 3

SnapshotAdvances == { 1, 1800 }

SnapshotDelays == { 0 }

\* two temperature readings in either order, an active one followed by an inactive
\* one, and lists without any active reading
SnapshotReadings ==
    { << dht22_reading("active", 24, 80), dht22_reading("active", 21, 65),
         mq135_reading("active", FALSE) >>,
      << dht22_reading("active", 21, 65), dht22_reading("active", 24, 80),
         mq135_reading("active", FALSE) >>,
      << dht22_reading("active", 21, 65), dht22_reading("inactive", 24, 80),
         mq135_reading("active", TRUE) >>,
      << dht22_reading("inactive", 21, 65), mq135_reading("active", TRUE) >>,
      << dht22_reading("error", 21, 65), mq135_reading("inactive", TRUE) >>,
      << >> }

SnapshotTick == Tick(SnapshotAdvances, SnapshotDelays, SnapshotReadings, MaxSnapshotTicks)

SnapshotInit == TickInit

SnapshotNext == SnapshotTick

SnapshotSpec == SnapshotInit /\ [][SnapshotNext]_vars

\* the positions of the active readings of a list, and the last one of a type
ActiveAt(list) == { i \in 1 .. Len(list) : list[i].status = "active" }

LastActive(list, sensor_type) ==
    CHOOSE i \in ActiveAt(list) :
        /\ list[i].sensor_type = sensor_type
        /\ \A j \in ActiveAt(list) : list[j].sensor_type = sensor_type => j <= i

\* the snapshot the claim describes
LastActiveByType(list) ==
    [ sensor_type \in { list[i].sensor_type : i \in ActiveAt(list) } |->
        list[LastActive(list, sensor_type)] ]

\* the HVAC rule's predicate on a snapshot
HvacDue(snapshot) ==
    /\ "temperature_humidity" \in DOMAIN snapshot
    /\ "air_quality" \in DOMAIN snapshot
    /\ snapshot["temperature_humidity"].temperature_celsius
           < alert_configs["Smart_HVAC_Load_Control"].temp_threshold
    /\ snapshot["temperature_humidity"].humidity_percent
           > alert_configs["Smart_HVAC_Load_Control"].humidity_threshold

\* C26: the snapshot of a tick maps each sensor type to the last reading of the list
\* that has the type and status 'active' (the rules act on that reading: the carbon
\* rule counts gas, the HVAC rule emits when due); a tick without an active reading
\* evaluates no rule and changes no state.
C26_SnapshotIsLastActivePerType ==
    last.op = "check_all_alerts" =>
        /\ Snapshot = LastActiveByType(last.sensor_readings)
        /\ "Smart_HVAC_Load_Control" \notin DOMAIN Before.alert_cooldowns
              => ("Smart_HVAC_Load_Control" \in After.emitted
                     <=> HvacDue(LastActiveByType(last.sensor_readings)))
        /\ Exposure(After, "Zone-1") = Exposure(Before, "Zone-1")
              + (IF /\ "air_quality" \in DOMAIN LastActiveByType(last.sensor_readings)
                    /\ LastActiveByType(last.sensor_readings)["air_quality"].gas_detected
                 THEN 1 ELSE 0)
        /\ ActiveAt(last.sensor_readings) = { } => After = Before

\* a tick whose list holds two active temperature readings, the later one cool and
\* humid: the HVAC rule emitted on the later one; and before it a tick without any
\* active reading, which left the clock of the pass where it was
C26_Witness ==
    /\ last.op = "check_all_alerts"
    /\ Len(history) = 2
    /\ ActiveAt(history[1].sensor_readings) = { }
    /\ history[1].sensor_readings # << >>
    /\ Cardinality({ i \in ActiveAt(last.sensor_readings) :
                        last.sensor_readings[i].sensor_type = "temperature_humidity" }) = 2
    /\ "Smart_HVAC_Load_Control" \in After.emitted

---------------------------------------------------------------------------
(* Claims about the sensors' liveness fields                               *)

\* get_reading: the status a sensor reports
reported_status(s) == IF is_active[s] THEN "active" ELSE "inactive"

\* update_reading has obtained data from the sensor at least once
HasReadOnce(s) == last_reading_time[s] # NoTime

\* C27: every sensor is Inactive from its construction until its first successful
\* read: no sensor has is_active true, or reports status 'active', in a state where
\* update_reading has not yet obtained data once.
C27_InactiveUntilFirstRead ==
    \A s \in Sensors :
        (is_active[s] \/ reported_status(s) = "active") => HasReadOnce(s)

\* the None branch of update_reading, written from base_sensor.py:46-61
after_none_result(st) ==
    IF ~st.is_active THEN st
    ELSE [ st EXCEPT
             !.consecutive_failed_reads = @ + 1,
             !.is_active = st.consecutive_failed_reads + 1 < max_connection_failures,
             !.current_reading =
                 IF st.consecutive_failed_reads + 1 >= max_connection_failures
                 THEN "empty" ELSE @,
             !.connection_failures =
                 IF st.consecutive_failed_reads + 1 >= max_connection_failures
                 THEN @ + 1 ELSE @ ]

\* C28: update_reading never raises; an exception thrown by read_sensor_data is
\* recorded as one failed read and leaves is_active, consecutive_failed_reads and
\* current_reading exactly as a None result would in the same prior state.
C28_ExceptionCountsAsFailedRead ==
    (last.op = "update_reading" /\ last.data = "raise") =>
        /\ SensorState(last.sensor) = update_reading(last.before, "none", now)
        /\ SensorState(last.sensor) = after_none_result(last.before)

\* an exception of read_sensor_data is the fifth consecutive failure of an Active
\* sensor that held a reading: the sensor is Inactive and its reading is cleared
C28_Witness ==
    /\ last.op = "update_reading"
    /\ last.data = "raise"
    /\ last.before.is_active
    /\ last.before.consecutive_failed_reads = 4
    /\ last.before.current_reading = "data"
    /\ ~is_active[last.sensor]
    /\ current_reading[last.sensor] = "empty"

---------------------------------------------------------------------------
(* Claims about the density window and the exposure accumulator            *)

\* the latest tick recorded a proximity event: the density rule ran its tracking
DensityTracked ==
    /\ last.op = "check_all_alerts"
    /\ last.alert_configs["People_Density_Alert"].enabled
    /\ "ultrasonic" \in DOMAIN Snapshot
    /\ "motion_sensor" \in DOMAIN Snapshot
    /\ Snapshot["motion_sensor"].motion_detected
    /\ IsNumber(Snapshot["ultrasonic"], "distance_cm")
    /\ Snapshot["ultrasonic"].distance_cm < 100

\* the events recorded for a zone up to and including the one of the latest tick
RecordedEvents(zone_id) ==
    Append(Get(last.entries_before, zone_id, << >>), last.steps[3].clock)

\* C29: the count People_Density_Alert uses is the number of events recorded for the
\* zone with timestamp >= now - window: an event whose age is exactly the window is
\* still counted.
C29_CountIncludesWindowBoundary ==
    DensityTracked =>
        LET zone_id == Snapshot["ultrasonic"].zone_id
            current_time == last.steps[3].clock
            in_window(t) == t >= current_time - density_window_minutes * 60
        IN  Len(last.steps[4].zone_entry_times[zone_id])
                = Len(SelectSeq(RecordedEvents(zone_id), in_window))

---------------------------------------------------------------------------
(* ExposureSpec: the tick loop with its sleeps: 1 s after a tick that      *)
(* returned (plus the time the sensor reads take), 5 s after one that raised *)

MaxExposureTicks == 4

\* time.sleep(1) plus sensor reads of 0 or 1 s; time.sleep(5) in the except clause
LoopAdvances == { 1, 2 }

BackoffAdvances == { 5 }

ExposureDelays == { 0 }

\* gas alone, gas with a malformed distance (the density rule raises), clean air
ExposureReadings ==
    { << mq135_reading("active", TRUE) >>,
      << mq135_reading("active", TRUE), hcsr04_reading_text("active"),
         motion_sensor_reading("active", TRUE, 3, 0) >>,
      << mq135_reading("active", FALSE) >> }

LoopTick ==
    IF last.op = "check_all_alerts" /\ last.steps[11].raised
    THEN Tick(BackoffAdvances, ExposureDelays, ExposureReadings, MaxExposureTicks)
    ELSE Tick(LoopAdvances, ExposureDelays, ExposureReadings, MaxExposureTicks)

ExposureInit == TickInit

ExposureNext == LoopTick

ExposureSpec == ExposureInit /\ [][ExposureNext]_vars

\* the seconds between the latest tick and the one before it
interval_seconds == history[Len(history)].t - history[Len(history) - 1].t

\* C30: on each tick where gas is detected the exposure accumulator grows by that
\* tick's actual interval (the accumulator counts hours in units of 1/3600, so by
\* interval_seconds units), also when ticks are not 1 second apart.
C30_ExposureGrowsByInterval ==
    (/\ last.op = "check_all_alerts"
     /\ Len(history) >= 2
     /\ GasObserved("Zone-1")
     /\ ~After.raised)
    => Exposure(After, "Zone-1") = Exposure(Before, "Zone-1") + interval_seconds

---------------------------------------------------------------------------
(* HvacSpec: ticks on temperature and humidity values around the           *)
(* thresholds of Smart_HVAC_Load_Control, zero and below zero included      *)

MaxHvacTicks == 2

HvacAdvances == { 1, 1800 }

HvacDelays == { 0 }

HvacTemperatures == { -5, 0, 22, 23, 30 }

HvacHumidities == { 0, 60, 61, 90 }

HvacReadings ==
    { << dht22_reading("active", temp, humidity), mq135_reading("active", FALSE) >> :
          temp \in HvacTemperatures, humidity \in HvacHumidities }

HvacTick == Tick(HvacAdvances, HvacDelays, HvacReadings, MaxHvacTicks)

HvacInit == TickInit

HvacNext == HvacTick

HvacSpec == HvacInit /\ [][HvacNext]_vars

\* the cooldown of alert_type had elapsed when the latest tick evaluated its rule k
CooldownElapsed(k, alert_type) ==
    LET tr == last.steps[k]
    IN  \/ alert_type \notin DOMAIN tr.alert_cooldowns
        \/ tr.clock - tr.alert_cooldowns[alert_type]
              >= Get(last.alert_configs[alert_type], "cooldown_minutes", 0) * 60

\* C31: with active temperature_humidity and air_quality readings, the rule enabled
\* and its cooldown elapsed, Smart_HVAC_Load_Control emits an alert if and only if
\* temperature < temp_threshold and humidity > humidity_threshold, for every numeric
\* temperature and humidity, 0 and negative temperatures included.
C31_HvacEmitsIffBelowTempAboveHumidity ==
    (/\ last.op = "check_all_alerts"
     /\ { "temperature_humidity", "air_quality" } \subseteq DOMAIN Snapshot
     /\ last.alert_configs["Smart_HVAC_Load_Control"].enabled
     /\ CooldownElapsed(1, "Smart_HVAC_Load_Control"))
    => ("Smart_HVAC_Load_Control" \in last.steps[2].emitted
        <=> /\ Snapshot["temperature_humidity"].temperature_celsius
                  < last.alert_configs["Smart_HVAC_Load_Control"].temp_threshold
            /\ Snapshot["temperature_humidity"].humidity_percent
                  > last.alert_configs["Smart_HVAC_Load_Control"].humidity_threshold)

---------------------------------------------------------------------------
(* Trackers and the cooldown outcome (RuleSpec, DensitySpec)               *)

\* what a defaultdict holds: reading a missing key stores the default under it, so an
\* entry equal to the default says the same as no entry
Stored(d, default) == [x \in { y \in DOMAIN d : d[y] # default } |-> d[x]]

\* the trackers of a manager record or of a recorded step
TrackerFields(tr) ==
    [ zone_entry_times          |-> Stored(tr.zone_entry_times, << >>),
      daily_usage_stats         |-> Stored(tr.daily_usage_stats, 0),
      co2_exposure_tracking     |-> Stored(tr.co2_exposure_tracking, 0),
      high_humidity_start_times |-> tr.high_humidity_start_times ]

\* the manager a rule would start from at a recorded step, with the given cooldown dict
ManagerAt(tr, cooldowns) ==
    [ clock                     |-> tr.clock,
      raised                    |-> FALSE,
      alerts                    |-> << >>,
      allocs                    |-> 0,
      alert_cooldowns           |-> cooldowns,
      zone_entry_times          |-> tr.zone_entry_times,
      daily_usage_stats         |-> tr.daily_usage_stats,
      co2_exposure_tracking     |-> tr.co2_exposure_tracking,
      high_humidity_start_times |-> tr.high_humidity_start_times ]

\* the trackers rule k leaves when it starts from the recorded step k of the latest
\* tick and its cooldown check is granted (no cooldown recorded) or denied (a grant
\* recorded at this very instant)
TrackersIfGranted(k) ==
    TrackerFields(apply_rule(k, ManagerAt(last.steps[k], EmptyDict),
                             last.alert_configs, Snapshot, 0))

TrackersIfDenied(k) ==
    TrackerFields(apply_rule(k, ManagerAt(last.steps[k],
                                          [x \in { RuleType(k) } |-> last.steps[k].clock]),
                             last.alert_configs, Snapshot, 0))

\* rule k is enabled in the latest tick and the types it requires are in the snapshot
RuleApplies(k) ==
    /\ Get(Get(last.alert_configs, RuleType(k), EmptyDict), "enabled", TRUE)
    /\ ~Absent(k)

\* C32: in every tick in which a rule is enabled and its required sensor types are
\* present, the rule's tracker is updated from the observed condition, the same
\* whether the cooldown check is granted or denied: the trackers the tick leaves
\* after the rule are those the rule's update computes under either outcome.
C32_TrackersUpdatedWhateverTheCooldown ==
    (last.op = "check_all_alerts" /\ Snapshot # EmptyDict) =>
        \A k \in 1 .. 10 :
            RuleApplies(k) =>
                /\ TrackerFields(last.steps[k + 1]) = TrackersIfGranted(k)
                /\ TrackerFields(last.steps[k + 1]) = TrackersIfDenied(k)

---------------------------------------------------------------------------
(* Alert types and the configuration table (HumiditySpec)                  *)

\* C33: every alert type that check_all_alerts emits is a key of the configuration
\* table: for each record of the store, update_alert_config on its AlertType succeeds
\* (no ValueError), so the rule can be disabled with {enabled: false}.
C33_EmittedTypesAreConfigurable ==
    \A i \in 1 .. Len(alerts) :
        LET r == update_alert_config(alert_configs, alerts[i].AlertType,
                                     [x \in { "enabled" } |-> FALSE])
        IN  /\ ~r.raised
            /\ ~r.alert_configs[alerts[i].AlertType].enabled

---------------------------------------------------------------------------
(* GapSpec: ticks in which the temperature_humidity sensor reports humid   *)
(* air, dry air, or is inactive                                            *)

MaxGapTicks == 4

GapAdvances == { 300, 600 }

GapDelays == { 0 }

\* humid air; dry air; the sensor inactive while another sensor is active; no active
\* sensor at all
GapReadings ==
    { << dht22_reading("active", 24, 80) >>,
      << dht22_reading("active", 24, 50) >>,
      << dht22_reading("inactive", 24, 80), mq135_reading("active", FALSE) >>,
      << dht22_reading("inactive", 24, 80) >> }

GapTick == Tick(GapAdvances, GapDelays, GapReadings, MaxGapTicks)

GapInit == TickInit

GapNext == GapTick

GapSpec == GapInit /\ [][GapNext]_vars

\* tick i observed the humidity of the zone above the dehumidifier threshold
HumidityHeld(i) ==
    LET readings == build_readings_dict(EmptyDict, history[i].sensor_readings)
    IN  /\ "temperature_humidity" \in DOMAIN readings
        /\ readings["temperature_humidity"].humidity_percent
               > alert_configs["Dehumidifier_Smart_Trigger"].humidity_threshold

\* C34: a Dehumidifier_Smart_Trigger alert is emitted for a zone only if humidity
\* was observed above the threshold in every tick since the recorded start time, for
\* longer than duration_minutes; a tick without an active temperature_humidity
\* reading does not count as the condition holding.
C34_DehumidifierNeedsContinuousHumidity ==
    (/\ last.op = "check_all_alerts"
     /\ "Dehumidifier_Smart_Trigger" \in last.steps[DehumidifierRule + 1].emitted)
    => LET start == last.steps[DehumidifierRule].high_humidity_start_times["Zone-1"]
       IN  /\ last.steps[DehumidifierRule].clock - start
                  > alert_configs["Dehumidifier_Smart_Trigger"].duration_minutes * 60
           /\ \A i \in 1 .. Len(history) :
                  history[i].dehumidifier_time >= start => HumidityHeld(i)

---------------------------------------------------------------------------
(* PenaltySpec: the exposure threshold of Carbon_Penalty_Avoidance is      *)
(* configured to 0 hours, then ticks with and without gas follow           *)

MaxPenaltyOps == 5

PenaltyAdvances == { 1, 3600 }

PenaltyDelays == { 0 }

PenaltyThresholds == { 0 }

ConfigurePenalty ==
    /\ ops = 0
    /\ \E threshold \in PenaltyThresholds :
         LET config_updates == [x \in {"exposure_hours_threshold"} |-> threshold]
             r == update_alert_config(alert_configs, "Carbon_Penalty_Avoidance",
                                      config_updates)
         IN  /\ alert_configs' = r.alert_configs
             /\ last' = [ op |-> "update_alert_config",
                          alert_type |-> "Carbon_Penalty_Avoidance",
                          config_updates |-> config_updates, raised |-> r.raised ]
    /\ ops' = ops + 1
    /\ UNCHANGED << now, alerts, alert_cooldowns, db_manager, zone_entry_times,
                    daily_usage_stats, co2_exposure_tracking, high_humidity_start_times,
                    allocs, cleared, history, sensorVars, apiVars >>

PenaltyTick ==
    /\ ops >= 1
    /\ Tick(PenaltyAdvances, PenaltyDelays, ExposureReadings, MaxPenaltyOps)

PenaltyInit == TickInit

PenaltyNext ==
    \/ ConfigurePenalty
    \/ PenaltyTick

PenaltySpec == PenaltyInit /\ [][PenaltyNext]_vars

\* the exposure of the zone is above the configured threshold at a recorded step
Exceeded(tr, zone_id) ==
    Exposure(tr, zone_id)
        > Get(last.alert_configs["Carbon_Penalty_Avoidance"], "exposure_hours_threshold", 2)
              * exposure_units_per_hour

\* C35: once co2_exposure_tracking[zone] exceeds exposure_hours_threshold it exceeds
\* it in every later state (threshold unchanged), and from then on a
\* Carbon_Penalty_Avoidance alert is emitted at every tick that has an active
\* air_quality reading for the zone and an elapsed cooldown, with or without gas.
C35_ExceededExposureAlertsEveryCooldown ==
    (/\ last.op = "check_all_alerts"
     /\ Exceeded(Before, "Zone-1"))
    => /\ Exceeded(After, "Zone-1")
       /\ (/\ "air_quality" \in DOMAIN Snapshot
           /\ Snapshot["air_quality"].zone_id = "Zone-1"
           /\ CooldownElapsed(10, "Carbon_Penalty_Avoidance"))
          => "Carbon_Penalty_Avoidance" \in After.emitted

---------------------------------------------------------------------------
(* The failure counter of a sensor (BaseSensorSpec)                        *)

---------------------------------------------------------------------------
(* ReadSpec: get_reading on the API thread while update_all_sensors runs   *)
(* on the background thread.  The threads switch between two statements;   *)
(* a `with self.lock` block runs without the other thread inside its own.   *)

\* variant: the reported status does not follow is_active
get_reading_always_active(st) ==
    [ status               |-> "active",
      timestamp            |-> st.last_reading_time,
      consecutive_failures |-> st.consecutive_failed_reads,
      payload              |-> st.current_reading ]

\* get_reading: the fields of the returned dict that depend on the sensor's state
get_reading(st) ==
    [ status               |-> IF st.is_active THEN "active" ELSE "inactive",
      timestamp            |-> st.last_reading_time,
      consecutive_failures |-> st.consecutive_failed_reads,
      payload              |-> st.current_reading ]

\* update_reading up to the statement `self.is_active = False` of a deactivation
\* (lines 36-54, 65-68), or the whole call when it does not deactivate the sensor
UpdateReadingBegin ==
    /\ \A s \in Sensors : updating[s] = "idle"
    /\ \E s \in Sensors, hw \in HwOutcomes :
         LET data == read_sensor_data(sensor_class[s], is_active[s], hw_present[s], hw)
             st   == update_reading(SensorState(s), data, now)
         IN  /\ hw \in HwChoices(s)
             /\ IF is_active[s] /\ ~st.is_active
                THEN /\ is_active' = [is_active EXCEPT ![s] = FALSE]
                     /\ consecutive_failed_reads' =
                           [consecutive_failed_reads EXCEPT ![s] = st.consecutive_failed_reads]
                     /\ updating' = [updating EXCEPT ![s] = "deactivating"]
                     /\ UNCHANGED << connection_failures, current_reading,
                                     last_reading_time >>
                ELSE /\ SetSensor(s, st)
                     /\ UNCHANGED updating
             /\ last' = [ op |-> "update_reading", sensor |-> s, hw |-> hw, data |-> data,
                          before |-> SensorState(s) ]
    /\ UNCHANGED << now, managerVars, sensor_class, hw_present, sample, ops, history,
                    apiVars >>

\* the rest of a deactivation: `with self.lock: self.current_reading = {}` and
\* `self.connection_failures += 1` (lines 55-57, 69-71)
UpdateReadingEnd ==
    \E s \in Sensors :
       /\ updating[s] = "deactivating"
       /\ current_reading' = [current_reading EXCEPT ![s] = "empty"]
       /\ connection_failures' = [connection_failures EXCEPT ![s] = @ + 1]
       /\ updating' = [updating EXCEPT ![s] = "idle"]
       /\ UNCHANGED << now, managerVars, sensor_class, hw_present, is_active,
                       consecutive_failed_reads, last_reading_time, sample, ops, last,
                       history, apiVars >>

\* a handler of the API thread calls get_reading of one sensor
GetReading ==
    /\ reader.pc = "idle"
    /\ \E s \in Sensors :
          reader' = [ pc |-> "done", op |-> "get_reading", sensor |-> s,
                      during |-> updating[s], result |-> get_reading(SensorState(s)) ]
    /\ UNCHANGED << now, managerVars, ops, last, history, sensorVars >>

ReadInit == TickInit

ReadNext ==
    \/ UpdateReadingBegin
    \/ UpdateReadingEnd
    \/ GetReading
    \/ ReadReturn

ReadSpec == ReadInit /\ [][ReadNext]_vars

\* C37: get_reading called from the API thread while update_reading runs on the
\* background thread never returns status 'inactive' together with the payload
\* fields of the last successful read.
C37_InactiveReadingHasNoPayload ==
    (reader.pc = "done" /\ reader.op = "get_reading") =>
        ~(reader.result.status = "inactive" /\ reader.result.payload = "data")

---------------------------------------------------------------------------
(* PruneSpec: clear_old_alerts on one thread while the evaluation thread   *)
(* appends.  The threads switch between two statements and between two     *)
(* turns of the list comprehension.                                        *)

\* lines 566-569: the cutoff, len(self.alerts), and the iterator of the comprehension
\* on the live deque
ClearBegin ==
    /\ reader.pc = "idle"
    /\ \E days \in ClearDays :
          reader' = [ pc |-> "filtering", op |-> "clear_old_alerts",
                      cutoff_time |-> now - days * DaySeconds,
                      original_count |-> Len(alerts), state |-> allocs,
                      visited |-> 0, kept |-> << >> ]
    /\ UNCHANGED << now, managerVars, ops, last, history, sensorVars >>

\* one turn of the comprehension of lines 569-572: RuntimeError when the deque
\* changed since the iterator was created (the call ends, self.alerts keeps the old
\* deque), the new deque when the iterator is exhausted, the next record otherwise
ClearNext ==
    /\ reader.pc = "filtering"
    /\ reader' =
          IF allocs # reader.state
          THEN [ pc |-> "error", op |-> reader.op, cutoff_time |-> reader.cutoff_time,
                 replaced |-> alerts ]
          ELSE IF reader.visited = Len(alerts)
          THEN [ pc |-> "built", op |-> reader.op, cutoff_time |-> reader.cutoff_time,
                 original_count |-> reader.original_count,
                 new |-> deque_from(reader.kept) ]
          ELSE LET alert == alerts[reader.visited + 1]
               IN  [ reader EXCEPT
                       !.visited = @ + 1,
                       !.kept = IF fromisoformat(alert.Date) > reader.cutoff_time
                                THEN Append(@, alert) ELSE @ ]
    /\ UNCHANGED << now, managerVars, ops, last, history, sensorVars >>

\* `self.alerts = deque([...], maxlen=1000)`: the attribute is rebound to the new
\* deque; lines 574-578 compute the count the call returns
ClearAssign ==
    /\ reader.pc = "built"
    /\ alerts' = reader.new
    /\ cleared' = cleared + (Len(alerts) - Len(reader.new))
    /\ reader' = [ pc |-> "done", op |-> reader.op, cutoff_time |-> reader.cutoff_time,
                   replaced |-> alerts,
                   result |-> reader.original_count - Len(reader.new) ]
    /\ UNCHANGED << now, alert_cooldowns, alert_configs, db_manager, zone_entry_times,
                    daily_usage_stats, co2_exposure_tracking, high_humidity_start_times,
                    allocs, ops, last, history, sensorVars >>

PruneInit == StoreInit

PruneNext ==
    \/ ConcTick
    \/ ClearBegin
    \/ ClearNext
    \/ ClearAssign
    \/ ReadReturn

PruneSpec == PruneInit /\ [][PruneNext]_vars

\* C38: no alert is lost to a concurrent prune: when clear_old_alerts has run while
\* the evaluation thread appended, every alert that was appended to the store before
\* the call completed and is newer than the cutoff is in the store after it.
C38_NoAlertLostToConcurrentPrune ==
    (reader.pc \in { "done", "error" } /\ reader.op = "clear_old_alerts") =>
        \A i \in 1 .. Len(reader.replaced) :
            fromisoformat(reader.replaced[i].Date) > reader.cutoff_time
                => \E k \in 1 .. Len(alerts) : alerts[k] = reader.replaced[i]

---------------------------------------------------------------------------
(* IntegratedSpec: background_sensor_loop, each iteration                  *)
(* update_all_sensors followed by check_all_alerts(get_all_readings())     *)

MaxLoopOps == 6

IntegratedAdvances == { 1, 901 }

\* variant: the radar reports the type the rules read
get_sensor_type_motion_sensor(cls) ==
    CASE cls = "DHT22Sensor" -> "temperature_humidity"
      [] cls = "HLK_LD2420Sensor" -> "motion_sensor"

\* get_sensor_type of the concrete classes
get_sensor_type(cls) ==
    CASE cls = "DHT22Sensor" -> "temperature_humidity"
      [] cls = "HLK_LD2420Sensor" -> "motion_radar"

\* the dict a successful read_sensor_data returns, with the fields the rules read:
\* humid air; nobody moving for 25 minutes
sensor_data(cls) ==
    CASE cls = "DHT22Sensor" -> [ temperature_celsius |-> 24, humidity_percent |-> 80 ]
      [] cls = "HLK_LD2420Sensor" ->
            [ motion_detected |-> FALSE, motion_count |-> 3,
              time_since_motion_seconds |-> 1500 ]

\* the order of SensorManager.sensors
SensorOrder == << "temperature_humidity", "motion_radar" >>

\* the dict get_reading returns: base_info, updated with current_reading when that
\* is not empty (smp is the content of current_reading)
reading_dict(cls, st, smp) ==
    LET r == get_reading(st)
        base_info == [ sensor_type |-> get_sensor_type(cls), zone_id |-> "Zone-1",
                       status |-> r.status ]
    IN  IF r.payload = "data" THEN DictUpdate(base_info, smp) ELSE base_info

\* one iteration of background_sensor_loop, adv seconds after the previous one
BackgroundLoop ==
    /\ ops < MaxLoopOps
    /\ \E adv \in IntegratedAdvances, hw \in [Sensors -> HwOutcomes] :
         LET t    == now + adv
             data == [s \in Sensors |->
                         read_sensor_data(sensor_class[s], is_active[s], hw_present[s], hw[s])]
             st   == [s \in Sensors |-> update_reading(SensorState(s), data[s], t)]
             smp  == [s \in Sensors |->
                         IF data[s] = "data" THEN sensor_data(sensor_class[s]) ELSE sample[s]]
             get_all_readings ==
                 [i \in 1 .. Len(SensorOrder) |->
                     reading_dict(sensor_class[SensorOrder[i]], st[SensorOrder[i]],
                                  smp[SensorOrder[i]])]
         IN  /\ \A s \in Sensors : hw[s] \in HwChoices(s)
             /\ is_active' = [s \in Sensors |-> st[s].is_active]
             /\ consecutive_failed_reads' = [s \in Sensors |-> st[s].consecutive_failed_reads]
             /\ connection_failures' = [s \in Sensors |-> st[s].connection_failures]
             /\ current_reading' = [s \in Sensors |-> st[s].current_reading]
             /\ last_reading_time' = [s \in Sensors |-> st[s].last_reading_time]
             /\ sample' = smp
             /\ Evaluate(t, 0, get_all_readings)
    /\ ops' = ops + 1
    /\ UNCHANGED << alert_configs, db_manager, cleared, sensor_class, hw_present, updating,
                    apiVars >>

IntegratedInit == TickInit

IntegratedNext == BackgroundLoop

IntegratedSpec == IntegratedInit /\ [][IntegratedNext]_vars

\* the alert types of the rules that read a 'motion_sensor' reading
MotionTypes ==
    { "Predictive_Sick_Building_Alert", "People_Density_Alert",
      "Zone_Level_Attendance_Accuracy", "Smart_Ventilation_Escalation",
      "Toilet_Occupancy_Cleaning" }

\* C39: in the integrated loop the snapshot never contains the sensor type
\* 'motion_sensor' (the radar reports 'motion_radar'), and no alert of type
\* Predictive_Sick_Building_Alert, People_Density_Alert,
\* Zone_Level_Attendance_Accuracy, Smart_Ventilation_Escalation or
\* Toilet_Occupancy_Cleaning is ever emitted.
C39_NoMotionSensorInLoop ==
    /\ last.op = "check_all_alerts" => "motion_sensor" \notin DOMAIN Snapshot
    /\ \A i \in 1 .. Len(alerts) : alerts[i].AlertType \notin MotionTypes

\* the radar is Active and reports that nobody has moved for longer than the
\* attendance rule's timeout, in a tick that emits another rule's alert
C39_Witness ==
    /\ last.op = "check_all_alerts"
    /\ "motion_radar" \in DOMAIN Snapshot
    /\ "time_since_motion_seconds" \in DOMAIN Snapshot["motion_radar"]
    /\ Snapshot["motion_radar"].time_since_motion_seconds
          > alert_configs["Zone_Level_Attendance_Accuracy"].motion_timeout_minutes * 60
    /\ After.emitted = { "Dehumidifier_Smart_Trigger" }

\* C40: in the integrated loop no alert is emitted in a tick from a reading of a
\* sensor that is Inactive in that tick: its stored payload is empty, its reading
\* has status 'inactive' and is not in the snapshot, and no rule that requires its
\* sensor type emits.
C40_InactiveSensorFeedsNoRule ==
    last.op = "check_all_alerts" =>
        \A i \in 1 .. Len(SensorOrder) :
            LET s == SensorOrder[i]
            IN  ~is_active[s] =>
                   /\ current_reading[s] = "empty"
                   /\ last.sensor_readings[i].status = "inactive"
                   /\ DOMAIN last.sensor_readings[i] = { "sensor_type", "zone_id", "status" }
                   /\ last.sensor_readings[i].sensor_type \notin DOMAIN Snapshot
                   /\ \A k \in 1 .. 10 :
                         last.sensor_readings[i].sensor_type \in Required(k)
                             => RuleType(k) \notin After.emitted

\* the temperature_humidity sensor has just been deactivated by its fifth failed
\* read, after humid air had been observed for longer than the dehumidifier rule's
\* duration; the radar is Active, so the rules were evaluated, and nothing is emitted
C40_Witness ==
    /\ last.op = "check_all_alerts"
    /\ ~is_active["temperature_humidity"]
    /\ last_reading_time["temperature_humidity"] # NoTime
    /\ "motion_radar" \in DOMAIN Snapshot
    /\ "Zone-1" \in DOMAIN high_humidity_start_times
    /\ last.t - high_humidity_start_times["Zone-1"]
          > alert_configs["Dehumidifier_Smart_Trigger"].duration_minutes * 60
    /\ After.emitted = { }

====
